---- MODULE Spec2Model ----
(***************************************************************************)
(* Log classification and ingestion pipeline of circus-mcp:                *)
(*   PatternManager / LogClassifier   (log_parser/patterns.py,             *)
(*                                     log_parser/classifier.py)           *)
(*   InMemoryLogRepository            (infrastructure/repositories.py)     *)
(*   LogService                       (service/log_service.py)             *)
(*                                                                         *)
(* Text is modelled as a sequence of words.  A regular expression of the   *)
(* program is an alternation of literals; it is modelled as the set of     *)
(* its alternatives and re.search as "some word of the text contains some  *)
(* alternative".  Words are case-folded (the keyword patterns carry        *)
(* re.IGNORECASE); the word " " stands for a run of whitespace.            *)
(***************************************************************************)
EXTENDS Naturals, Integers, Sequences, FiniteSets, TLC

VARIABLES
    patterns,          \* PatternManager.patterns        (ordered dict)
    custom_patterns,   \* PatternManager.custom_patterns (ordered dict)
    loaded,            \* history: the two dicts as the latest registry
                       \* operation that ran to its end left them
    logs,              \* InMemoryLogRepository._logs      key -> deque
    all_logs,          \* InMemoryLogRepository._all_logs  deque
    appended,          \* history: every entry handed to save_log_entry
    callbacks,         \* LogService._callbacks
    processing_stats,  \* LogService._processing_stats
    processing_queue,  \* LogService._processing_queue
    processing_task,   \* LogService._processing_task: 0 is None, else a worker
    workers,           \* the tasks running _background_processor
    caller,            \* the foreground task inside process_log_line
    stopper,           \* the task inside stop_background_processing
    events,            \* history: stats updates, notifications and alerts of
                       \* the calls in progress and of the latest call
    stop_returned,     \* history: a stop returned and no start came after
    stale,             \* history: items at the head of the queue that were
                       \* queued when a stop cancelled the worker
    steady,            \* history: the observers registered ever since the
                       \* latest call of process_log_line began
    batch,             \* the task inside process_log_batch, and its outcome
    batch_buffer,      \* LogParser._batch_buffer
    batch_process_name,\* LogParser._batch_process_name
    flushes,           \* the tasks running _process_batch_buffer
    added,             \* history: the lines handed to add_to_batch_buffer
    tasks,             \* the tasks a gather of parse_log_batch_optimized awaits
    progress,          \* history: the starts and ends of those tasks, in order
    last               \* the operation that ran last: [op, arg, ret]

vars == <<patterns, custom_patterns, loaded, logs, all_logs, appended,
          callbacks, processing_stats, processing_queue, processing_task, workers,
          caller, stopper, events, stop_returned, stale, steady,
          batch, batch_buffer, batch_process_name, flushes, added, tasks,
          progress, last>>

regVars   == <<patterns, custom_patterns, loaded>>
storeVars == <<logs, all_logs, appended>>
bufVars   == <<batch_buffer, batch_process_name, flushes, added>>
taskVars  == <<tasks, progress>>
pipeVars  == <<callbacks, processing_stats, processing_queue, processing_task,
               workers, caller, stopper, events, stop_returned, stale,
               steady, batch>>

(***************************************************************************)
(* Generic helpers                                                         *)
(***************************************************************************)
Range(s) == {s[i] : i \in 1..Len(s)}

\* All orders in which a finite set can be iterated.
RECURSIVE Orderings(_)
Orderings(S) ==
    IF S = {} THEN {<<>>}
    ELSE UNION { { <<x>> \o s : s \in Orderings(S \ {x}) } : x \in S }

RECURSIVE Concat(_)
Concat(ss) == IF ss = <<>> THEN <<>> ELSE Head(ss) \o Concat(Tail(ss))

Min(S) == CHOOSE x \in S : \A y \in S : x <= y

(***************************************************************************)
(* LogPattern                                                              *)
(***************************************************************************)
Levels == {"error", "warning", "info", "debug", "critical"}

\* Process keys (process_name).
Keys == {"svc1", "svc2"}

\* The literal a bracket tag encloses: "[ERROR]" contains "ERROR".
Inner(word) ==
    CASE word = "[ERROR]" -> "ERROR"
      [] word = "[WARN]"  -> "WARN"
      [] OTHER            -> word

\* re.search of one literal in one word.
Contains(word, lit) == lit = word \/ lit = Inner(word)

\* LogPattern(regex, priority): regex is the set of its alternatives.
LogPattern(regex, priority) == [regex |-> regex, priority |-> priority]

\* re.compile(regex) succeeds: an alternative "(" is an unbalanced
\* parenthesis and does not compile.
Compiles(regex) == "(" \notin regex

\* LogPattern.match(text)
Match(pattern, text) ==
    \E i \in 1..Len(text) : \E lit \in pattern.regex : Contains(text[i], lit)

(***************************************************************************)
(* PatternManager                                                          *)
(* An ordered dict is a record [keys: sequence of levels in insertion      *)
(* order, lists: level -> sequence of patterns]; lists[l] = <<>> for a     *)
(* level that is no key.                                                   *)
(***************************************************************************)
EmptyDict == [keys |-> <<>>, lists |-> [l \in Levels |-> <<>>]]

\* The two dicts of a PatternManager.
Registry(std, custom) == [patterns |-> std, custom_patterns |-> custom]

DictGet(d, level) == IF level \in Range(d.keys) THEN d.lists[level] ELSE <<>>

DefaultPatterns ==
    [keys  |-> <<"error", "warning", "info", "debug">>,
     lists |-> [l \in Levels |->
        CASE l = "error" ->
               << LogPattern({"ERROR", "EXCEPTION", "TRACEBACK", "FATAL", "CRITICAL"}, 1),
                  LogPattern({"[ERROR]", "[FATAL]", "[CRITICAL]"}, 1) >>
          [] l = "warning" ->
               << LogPattern({"WARNING", "WARN"}, 2),
                  LogPattern({"[WARNING]", "[WARN]"}, 2) >>
          [] l = "info" ->
               << LogPattern({"INFO", "STARTING", "STOPPING", "LISTENING", "SERVER"}, 3),
                  LogPattern({"[INFO]"}, 3) >>
          [] l = "debug" ->
               << LogPattern({"DEBUG"}, 4),
                  LogPattern({"[DEBUG]"}, 4) >>
          [] OTHER -> <<>>]]

\* list.sort(key=priority): a stable insertion sort.
RECURSIVE InsertByPriority(_, _)
InsertByPriority(sorted, p) ==
    IF sorted = <<>> THEN <<p>>
    ELSE IF p.priority < Head(sorted).priority THEN <<p>> \o sorted
    ELSE <<Head(sorted)>> \o InsertByPriority(Tail(sorted), p)

RECURSIVE SortByPriority(_)
SortByPriority(s) ==
    IF s = <<>> THEN <<>>
    ELSE InsertByPriority(SortByPriority(SubSeq(s, 1, Len(s) - 1)), s[Len(s)])

\* PatternManager.get_patterns(level)
get_patterns(level) ==
    SortByPriority(DictGet(patterns, level) \o DictGet(custom_patterns, level))

\* set(self.patterns.keys()) | set(self.custom_patterns.keys())
all_levels == Range(patterns.keys) \cup Range(custom_patterns.keys)

\* PatternManager.get_all_patterns(): the dict is filled in the iteration
\* order of the set all_levels.  That order depends on the string hashes
\* (randomised per interpreter run); `order` is one of them.
get_all_patterns(order) ==
    [i \in 1..Len(order) |-> [level |-> order[i], patterns |-> get_patterns(order[i])]]


\* A level key added before the pattern is built.
AddKeyFirst(level, regex, priority) ==
    LET keyed == [custom_patterns EXCEPT
                    !.keys = IF level \in Range(@) THEN @ ELSE Append(@, level)]
    IN  IF ~Compiles(regex)
        THEN [custom_patterns |-> keyed, ret |-> "raise"]
        ELSE [custom_patterns |->
                 [keyed EXCEPT !.lists[level] = Append(@, LogPattern(regex, priority))],
              ret |-> "none"]

\* PatternManager.add_custom_pattern(level, regex, priority): LogPattern is
\* built first, and LogPatternError leaves the method before the dict is
\* touched.
add_custom_pattern(level, regex, priority) ==
    IF ~Compiles(regex)
    THEN [custom_patterns |-> custom_patterns, ret |-> "raise"]
    ELSE [custom_patterns |->
             [keys  |-> IF level \in Range(custom_patterns.keys)
                        THEN custom_patterns.keys
                        ELSE Append(custom_patterns.keys, level),
              lists |-> [custom_patterns.lists EXCEPT
                           ![level] = Append(@, LogPattern(regex, priority))]],
          ret |-> "none"]

\* _parse_patterns_config, one section of the file into one dict: each
\* level gets a fresh list that takes the patterns that compile; a value
\* that is no list (iterable FALSE) raises when it is iterated.
RECURSIVE ParseSection(_, _)
ParseSection(d, section) ==
    IF section = <<>> THEN [dict |-> d, ret |-> "none"]
    ELSE LET level == Head(section).level
             list  == Head(section).list
             keyed == [keys  |-> IF level \in Range(d.keys) THEN d.keys
                                 ELSE Append(d.keys, level),
                       lists |-> [d.lists EXCEPT ![level] = <<>>]]
         IN  IF ~list.iterable
             THEN [dict |-> keyed, ret |-> "raise"]
             ELSE LET good == SelectSeq(list.items, LAMBDA i : Compiles(i.regex))
                      pats == [i \in 1..Len(good) |->
                                  LogPattern(good[i].regex, good[i].priority)]
                  IN  ParseSection([keyed EXCEPT !.lists[level] = pats], Tail(section))

\* PatternManager._parse_patterns_config(config) on the registry R
parse_patterns_config(R, config) ==
    LET p == ParseSection(R.patterns, config.patterns)
    IN  IF p.ret = "raise"
        THEN [patterns |-> p.dict, custom_patterns |-> R.custom_patterns, ret |-> "raise"]
        ELSE LET c == ParseSection(R.custom_patterns, config.custom_patterns)
             IN  [patterns |-> p.dict, custom_patterns |-> c.dict, ret |-> c.ret]

\* PatternManager._load_default_patterns()
load_default_patterns == Registry(DefaultPatterns, EmptyDict)

\* What a load or a reload gives: the two dicts and "none", or "raise" for
\* an exception that leaves the method.
LoadResult(R, ret) ==
    [patterns |-> R.patterns, custom_patterns |-> R.custom_patterns, ret |-> ret]

\* A load with no except clause: what was parsed stays and the exception
\* leaves the method.
LoadPropagate(R, config) ==
    IF config.file = "missing" THEN LoadResult(load_default_patterns, "none")
    ELSE IF config.file = "unreadable" THEN LoadResult(R, "raise")
    ELSE parse_patterns_config(R, config)

\* PatternManager._load_patterns() on the registry R: a file that is
\* missing, that cannot be read or whose parsing raises gives the default
\* patterns, whatever the parsing had filled in; no exception leaves it.
load_patterns(R, config) ==
    IF config.file = "missing" THEN LoadResult(load_default_patterns, "none")
    ELSE IF config.file = "unreadable" THEN LoadResult(load_default_patterns, "none")
    ELSE LET r == parse_patterns_config(R, config)
         IN  IF r.ret = "raise" THEN LoadResult(load_default_patterns, "none")
             ELSE LoadResult(r, "none")

\* A reload that gives the event loop away between clearing and loading.
ReloadSuspended(config) ==
    [patterns |-> EmptyDict, custom_patterns |-> EmptyDict, ret |-> "none",
     done |-> FALSE]

\* PatternManager.reload_patterns(): both dicts are cleared and the file is
\* loaded, with no await in between.
reload_patterns(config) ==
    LET cleared == Registry([patterns EXCEPT !.keys = <<>>,
                                             !.lists = [l \in Levels |-> <<>>]],
                            [custom_patterns EXCEPT !.keys = <<>>,
                                                    !.lists = [l \in Levels |-> <<>>]])
        r == load_patterns(cleared, config)
    IN  [patterns |-> r.patterns, custom_patterns |-> r.custom_patterns,
         ret |-> r.ret, done |-> TRUE]

(***************************************************************************)
(* LogClassifier                                                           *)
(***************************************************************************)
\* The (level, priority) pairs of the patterns of one level that match.
RECURSIVE LevelMatches(_, _, _)
LevelMatches(level, pats, text) ==
    IF pats = <<>> THEN <<>>
    ELSE (IF Match(Head(pats), text)
          THEN << [level |-> level, priority |-> Head(pats).priority] >>
          ELSE <<>>) \o LevelMatches(level, Tail(pats), text)

\* The list `matches` of _detect_log_level, before it is sorted.
CollectMatches(text, order) ==
    LET all == get_all_patterns(order)
    IN  Concat([i \in 1..Len(all) |-> LevelMatches(all[i].level, all[i].patterns, text)])

\* A detection that forgets matches.sort(key=priority): first match found.
DetectUnsorted(text, order) ==
    LET matches == CollectMatches(text, order)
    IN  IF matches # <<>> THEN matches[1].level ELSE "info"

\* A detection whose default is the level of the least severity.
DetectDefaultDebug(text, order) ==
    LET matches == CollectMatches(text, order)
    IN  IF matches # <<>> THEN SortByPriority(matches)[1].level ELSE "debug"

\* LogClassifier._detect_log_level(log_text)
detect_log_level(text, order) ==
    LET matches == CollectMatches(text, order)
    IN  IF matches # <<>> THEN SortByPriority(matches)[1].level ELSE "info"

\* The iteration orders of all_levels that give different `matches`: a level
\* none of whose patterns matches adds nothing to the list, so every order
\* of the levels that match is taken, followed by the others in one order.
LevelSeq == <<"critical", "debug", "error", "info", "warning">>

RECURSIVE Restrict(_, _)
Restrict(s, S) ==
    IF s = <<>> THEN <<>>
    ELSE (IF Head(s) \in S THEN <<Head(s)>> ELSE <<>>) \o Restrict(Tail(s), S)

IterationOrders(text) ==
    LET hit == {l \in all_levels : LevelMatches(l, get_patterns(l), text) # <<>>}
    IN  { o \o Restrict(LevelSeq, all_levels \ hit) : o \in Orderings(hit) }

(***************************************************************************)
(* InMemoryLogRepository                                                   *)
(* _logs is a defaultdict of deques: a key that was never written reads as *)
(* the empty deque, so it is a total function with <<>> for such keys.     *)
(***************************************************************************)
MaxLogsPerProcess == 2      \* max_logs_per_process of the repository
GlobalFactor == 10          \* _all_logs holds max_logs_per_process * 10

GlobalCapacity == MaxLogsPerProcess * GlobalFactor

\* A deque that refuses the new element when it is full (drop-newest).
DequeDropNewest(d, x, maxlen) ==
    IF Len(d) >= maxlen THEN d ELSE Append(d, x)

\* A deque that never evicts.
DequeUnbounded(d, x, maxlen) == Append(d, x)

\* deque(maxlen=maxlen).append(x): a full deque drops its oldest element.
DequeAppend(d, x, maxlen) ==
    IF Len(d) >= maxlen THEN Append(Tail(d), x) ELSE Append(d, x)

\* InMemoryLogRepository.save_log_entry(log_entry) on a store
\* [logs, all_logs, appended].
save_log_entry(store, entry) ==
    [logs     |-> [store.logs EXCEPT ![entry.process_name] =
                      DequeAppend(@, entry, MaxLogsPerProcess)],
     all_logs |-> DequeAppend(store.all_logs, entry, GlobalCapacity),
     appended |-> Append(store.appended, entry)]

Store == [logs |-> logs, all_logs |-> all_logs, appended |-> appended]

SetStore(store) ==
    /\ logs' = store.logs
    /\ all_logs' = store.all_logs
    /\ appended' = store.appended

LogEntry(timestamp, level, message, process_name) ==
    [timestamp |-> timestamp, level |-> level, message |-> message,
     process_name |-> process_name]

\* list[:limit] of Python: a negative limit drops that many from the end.
SliceTo(s, limit) ==
    IF limit >= 0
    THEN SubSeq(s, 1, IF limit < Len(s) THEN limit ELSE Len(s))
    ELSE SubSeq(s, 1, IF Len(s) + limit > 0 THEN Len(s) + limit ELSE 0)

\* The loop of get_logs: an absent filter (level "", time 0) lets every
\* entry pass.
RECURSIVE FilterLogs(_, _, _, _)
FilterLogs(s, level, start_time, end_time) ==
    IF s = <<>> THEN <<>>
    ELSE LET log == Head(s)
             rest == FilterLogs(Tail(s), level, start_time, end_time)
         IN  IF level # "" /\ log.level # level THEN rest
             ELSE IF start_time # 0 /\ log.timestamp < start_time THEN rest
             ELSE IF end_time # 0 /\ log.timestamp > end_time THEN rest
             ELSE <<log>> \o rest

\* list.sort(key=timestamp, reverse=True): stable, entries of one timestamp
\* keep the order they had.
RECURSIVE InsertNewestFirst(_, _)
InsertNewestFirst(x, t) ==
    IF t = <<>> THEN <<x>>
    ELSE IF Head(t).timestamp <= x.timestamp THEN <<x>> \o t
    ELSE <<Head(t)>> \o InsertNewestFirst(x, Tail(t))

RECURSIVE SortNewestFirst(_)
SortNewestFirst(s) ==
    IF s = <<>> THEN <<>>
    ELSE InsertNewestFirst(Head(s), SortNewestFirst(Tail(s)))

\* A query that cuts the buffer to the limit before it filters and sorts.
GetLogsCutFirst(store, process_name, level, start_time, end_time, limit) ==
    LET buffer == IF process_name # ""
                  THEN (IF process_name \in DOMAIN store.logs
                        THEN store.logs[process_name] ELSE <<>>)
                  ELSE store.all_logs
    IN  SortNewestFirst(FilterLogs(SliceTo(buffer, limit),
                                   level, start_time, end_time))

\* InMemoryLogRepository.get_logs: process_name "" is the absent (or empty)
\* key; _logs.get() creates no buffer for a key never written.
get_logs(store, process_name, level, start_time, end_time, limit) ==
    LET buffer == IF process_name # ""
                  THEN (IF process_name \in DOMAIN store.logs
                        THEN store.logs[process_name] ELSE <<>>)
                  ELSE store.all_logs
        filtered_logs == FilterLogs(buffer, level, start_time, end_time)
    IN  SliceTo(SortNewestFirst(filtered_logs), limit)

(***************************************************************************)
(* LogDomainService                                                        *)
(***************************************************************************)
\* any(keyword in message_lower for keyword in keywords)
HasKeyword(message, keywords) ==
    \E i \in 1..Len(message) : \E kw \in keywords : Contains(message[i], kw)

\* LogDomainService.classify_log_level(message)
classify_log_level(message) ==
    IF HasKeyword(message, {"ERROR", "EXCEPTION", "TRACEBACK", "FAILED"}) THEN "error"
    ELSE IF HasKeyword(message, {"WARNING", "WARN"}) THEN "warning"
    ELSE IF HasKeyword(message, {"DEBUG"}) THEN "debug"
    ELSE IF HasKeyword(message, {"CRITICAL", "FATAL"}) THEN "critical"
    ELSE "info"

\* An alert rule that takes warnings in as well.
AlertFromWarning(entry) == entry.level \in {"warning", "error", "critical"}

\* LogDomainService.should_alert(log_entry)
should_alert(entry) == entry.level \in {"error", "critical"}

(***************************************************************************)
(* LogService                                                              *)
(* The operators below work on a record P of the state one call of         *)
(* process_log_line reads and writes: [logs, all_logs, appended, stats,    *)
(* events].  A notification event records what the observer could see at   *)
(* the moment it was invoked: whether the entry had been saved and whether *)
(* the statistics had been updated for it.                                 *)
(***************************************************************************)
Observers == {"cb_sync", "cb_async", "cb_fail"}

\* asyncio.iscoroutinefunction(callback): an awaited callback suspends the
\* task that notifies it.
IsAsync(observer) == observer = "cb_async"

\* A callback that raises an Exception when it is called.
Raises(observer) == observer = "cb_fail"

\* str.strip(): leading and trailing whitespace removed.
RECURSIVE lstrip(_)
lstrip(text) ==
    IF text # <<>> /\ Head(text) = " " THEN lstrip(Tail(text)) ELSE text

RECURSIVE rstrip(_)
rstrip(text) ==
    IF text # <<>> /\ text[Len(text)] = " "
    THEN rstrip(SubSeq(text, 1, Len(text) - 1))
    ELSE text

\* A strip that removes nothing.
StripNothing(text) == text

strip(text) == rstrip(lstrip(text))

\* _processing_stats after construction and after reset_stats; a dict
\* read with .get(key, 0) is a total function with 0 for missing keys.
ZeroStats ==
    [total_processed |-> 0, processing_errors |-> 0,
     level_counts |-> [l \in Levels |-> 0],
     process_counts |-> [k \in Keys |-> 0]]

\* LogService._update_processing_stats(log_entry), the rate aside.
update_processing_stats(stats, entry) ==
    [stats EXCEPT !.total_processed = @ + 1,
                  !.level_counts[entry.level] = @ + 1,
                  !.process_counts[entry.process_name] = @ + 1]

\* LogClassifier._classification_stats after construction and after
\* LogClassifier.reset_stats().
ZeroClassification == [total_classified |-> 0, by_level |-> [l \in Levels |-> 0]]

\* LogParser._processing_stats after construction.  pattern_matches stays
\* the empty dict: no entry carries matched_patterns.  The stats of the
\* classifier the parser owns are kept in the same record.
ParserStats ==
    [total_processed |-> 0, processing_errors |-> 0,
     level_counts |-> [l \in Levels |-> 0],
     process_counts |-> [k \in Keys |-> 0],
     pattern_matches |-> <<>>,
     classification_stats |-> ZeroClassification]

\* The stats are those of a LogParser, not of a LogService.
IsParser(stats) == "classification_stats" \in DOMAIN stats

\* A reset that carries the errors over as lines processed.
ResetCarriesErrors(stats) ==
    IF IsParser(stats)
    THEN [ParserStats EXCEPT !.total_processed = stats.processing_errors]
    ELSE [ZeroStats EXCEPT !.total_processed = stats.processing_errors]

\* A reset that zeroes the two totals only.
ResetTotalsOnly(stats) == [stats EXCEPT !.total_processed = 0, !.processing_errors = 0]

\* reset_stats(), the start time aside.  LogService (lines 288-298)
\* assigns the dict of the constructor; LogParser (lines 507-515) assigns a
\* dict that holds the two totals and no other key, and resets the
\* classifier.
reset_stats(stats) ==
    IF IsParser(stats)
    THEN [total_processed |-> 0, processing_errors |-> 0,
          classification_stats |-> ZeroClassification]
    ELSE ZeroStats

\* LogClassifier._update_stats(level)
update_stats(cstats, level) ==
    [cstats EXCEPT !.total_classified = @ + 1, !.by_level[level] = @ + 1]

\* LogParser._update_detailed_stats(log_entry), the rate aside.
update_detailed_stats(stats, entry) ==
    [stats EXCEPT !.level_counts[entry.level] = @ + 1,
                  !.process_counts[entry.process_name] = @ + 1]

Event(kind, entry, observer, stored, counted) ==
    [kind |-> kind, entry |-> entry, observer |-> observer,
     stored |-> stored, counted |-> counted]

IsStored(P, entry) == entry \in Range(P.appended)

IsCounted(P, entry) ==
    \E i \in 1..Len(P.events) :
        P.events[i].kind = "counted" /\ P.events[i].entry = entry

\* process_log_line, lines 85-89: save the entry, then update the stats.
StoreAndCount(P, entry) ==
    LET st == save_log_entry(
                  [logs |-> P.logs, all_logs |-> P.all_logs, appended |-> P.appended],
                  entry)
    IN  [P EXCEPT !.logs = st.logs, !.all_logs = st.all_logs,
                  !.appended = st.appended,
                  !.stats = update_processing_stats(@, entry),
                  !.events = Append(@, Event("counted", entry, "-", TRUE, TRUE))]

\* process_log_line, lines 94-96: the alert, after the notifications.
HandleAlert(P, entry) ==
    IF should_alert(entry)
    THEN [P EXCEPT !.events =
              Append(@, Event("alerted", entry, "-", IsStored(P, entry), IsCounted(P, entry)))]
    ELSE P

\* An except clause that does not count the error.
ExceptUncounted(P) == P

\* An except clause that counts the error twice.
ExceptCountsTwice(P) == [P EXCEPT !.stats.processing_errors = @ + 2]

\* An except clause that takes a line back from the total.
ExceptTakesBack(P) ==
    [P EXCEPT !.stats.processing_errors = @ + 1,
              !.stats.total_processed = IF @ > 0 THEN @ - 1 ELSE 0]

\* process_log_line, lines 100-103: the except clause counts the error
\* before LogParserError is raised.
except_clause(P) == [P EXCEPT !.stats.processing_errors = @ + 1]

\* One callback of the loop is invoked; the failure of a callback that
\* raises is caught and logged (lines 339-345).
Invoke(P, observer, entry) ==
    LET P1 == [P EXCEPT !.events =
                   Append(@, Event("notified", entry, observer,
                                   IsStored(P, entry), IsCounted(P, entry)))]
    IN  IF Raises(observer)
        THEN [P1 EXCEPT !.events = Append(@, Event("caught", entry, observer, TRUE, TRUE))]
        ELSE P1

RECURSIVE notify_callbacks(_, _, _, _)

\* A notification loop that lets the failure of a callback out: the loop
\* ends there and process_log_line fails.
NotifyPropagate(P, cbs, idx, entry) ==
    IF idx > Len(cbs)
    THEN [P |-> HandleAlert(P, entry), pc |-> "done", idx |-> idx, ret |-> "entry"]
    ELSE LET P1 == [P EXCEPT !.events =
                       Append(@, Event("notified", entry, cbs[idx],
                                       IsStored(P, entry), IsCounted(P, entry)))]
         IN  IF Raises(cbs[idx])
             THEN [P |-> except_clause(P1), pc |-> "done", idx |-> idx, ret |-> "raise"]
             ELSE IF IsAsync(cbs[idx])
             THEN [P |-> P1, pc |-> "notify", idx |-> idx + 1, ret |-> "entry"]
             ELSE notify_callbacks(P1, cbs, idx + 1, entry)

\* LogService._notify_callbacks(log_entry) from position idx of the live
\* list `cbs`, and the rest of process_log_line when the loop ends.  An
\* awaited callback is invoked and the task is suspended: the result says
\* where the loop goes on (pc = "notify") or that the call is over ("done")
\* and what it returns.
notify_callbacks(P, cbs, idx, entry) ==
    IF idx > Len(cbs)
    THEN [P |-> HandleAlert(P, entry), pc |-> "done", idx |-> idx, ret |-> "entry"]
    ELSE LET P1 == Invoke(P, cbs[idx], entry)
         IN  IF IsAsync(cbs[idx])
             THEN [P |-> P1, pc |-> "notify", idx |-> idx + 1, ret |-> "entry"]
             ELSE notify_callbacks(P1, cbs, idx + 1, entry)

\* An ingestion that notifies the observers before it saves and counts.
IngestNotifyFirst(P, cbs, entry) ==
    LET r == notify_callbacks(P, cbs, 1, entry)
    IN  [r EXCEPT !.P = StoreAndCount(r.P, entry)]

\* process_log_line, lines 85-96, for the entry built from a non-blank line.
ingest_entry(P, cbs, entry) ==
    notify_callbacks(StoreAndCount(P, entry), cbs, 1, entry)

NoEntry == LogEntry(0, "info", <<>>, "-")

\* What may fail in one call of process_log_line: nothing, the
\* classification (line 74) or save_log_entry (line 86), each by raising
\* before it has changed anything.
Faults == {"none", "classify", "store"}

\* LogService.process_log_line(log_line, process_name) up to its first
\* suspension or its return; datetime.now() is the number of the entry.
process_log_line(P, cbs, line, key, fault) ==
    LET cleaned == strip(line)
    IN  IF cleaned = <<>>
        THEN [P |-> P, pc |-> "done", idx |-> 0, entry |-> NoEntry, ret |-> "none"]
        ELSE IF fault # "none"
        THEN [P |-> except_clause(P), pc |-> "done", idx |-> 0, entry |-> NoEntry,
              ret |-> "raise"]
        ELSE LET entry == LogEntry(Len(P.appended) + 1, classify_log_level(cleaned),
                                   cleaned, key)
                 r == ingest_entry(P, cbs, entry)
             IN  [P |-> r.P, pc |-> r.pc, idx |-> r.idx, entry |-> entry, ret |-> r.ret]

RECURSIVE process_log_batch(_, _, _, _, _, _)

\* A batch loop that lets the failure of a line out: the loop ends there.
BatchPropagate(P, cbs, items, key, pos, out) ==
    IF pos > Len(items)
    THEN [P |-> P, pc |-> "done", pos |-> pos, out |-> out, entry |-> NoEntry, idx |-> 0]
    ELSE LET r == process_log_line(P, cbs, items[pos].line, key, items[pos].fault)
         IN  IF r.pc = "notify"
             THEN [P |-> r.P, pc |-> "notify", pos |-> pos, out |-> out,
                   entry |-> r.entry, idx |-> r.idx]
             ELSE IF r.ret = "raise"
             THEN [P |-> r.P, pc |-> "done", pos |-> pos, out |-> out,
                   entry |-> NoEntry, idx |-> 0]
             ELSE process_log_batch(r.P, cbs, items, key, pos + 1,
                                    IF r.ret = "entry" THEN Append(out, r.entry) ELSE out)

\* LogService.process_log_batch(log_lines, process_name) from line `pos`
\* with the entries `out` collected so far, up to its next suspension
\* (pc = "notify", inside the line at pos) or its return (pc = "done").
\* An item is a line and what fails when it is processed.
process_log_batch(P, cbs, items, key, pos, out) ==
    IF pos > Len(items)
    THEN [P |-> P, pc |-> "done", pos |-> pos, out |-> out, entry |-> NoEntry, idx |-> 0]
    ELSE LET r == process_log_line(P, cbs, items[pos].line, key, items[pos].fault)
         IN  IF r.pc = "notify"
             THEN [P |-> r.P, pc |-> "notify", pos |-> pos, out |-> out,
                   entry |-> r.entry, idx |-> r.idx]
             ELSE process_log_batch(r.P, cbs, items, key, pos + 1,
                                    IF r.ret = "entry" THEN Append(out, r.entry) ELSE out)

(***************************************************************************)
(* LogParser (log_parser/parser.py): the same pipeline without a           *)
(* repository and without alerts; its entries are numbered by              *)
(* total_processed.  Its callbacks are taken not to suspend.               *)
(***************************************************************************)
BatchSize == 2              \* LogParser._batch_size

\* LogParser._notify_callbacks(log_entry)
RECURSIVE parser_notify_callbacks(_, _, _, _)
parser_notify_callbacks(P, cbs, idx, entry) ==
    IF idx > Len(cbs) THEN P
    ELSE parser_notify_callbacks(Invoke(P, cbs[idx], entry), cbs, idx + 1, entry)

\* LogParser.parse_log_line(log_line, process_name): ret is "none" for the
\* empty dict, "entry", or "raise" for LogParserError.  The classifier
\* counts the line, total_processed is incremented, and
\* _update_detailed_stats raises KeyError when the dict holds no
\* level_counts; the except clause counts the error.
parse_log_line(P, cbs, line, key, fault) ==
    LET cleaned == strip(line)
    IN  IF cleaned = <<>>
        THEN [P |-> P, entry |-> NoEntry, ret |-> "none"]
        ELSE IF fault # "none"
        THEN [P |-> except_clause(P), entry |-> NoEntry, ret |-> "raise"]
        ELSE LET entry == LogEntry(P.stats.total_processed + 1,
                                   detect_log_level(cleaned, LevelSeq), cleaned, key)
                 S1 == IF IsParser(P.stats)
                       THEN [P.stats EXCEPT !.classification_stats =
                                                update_stats(@, entry.level)]
                       ELSE P.stats
                 S2 == [S1 EXCEPT !.total_processed = @ + 1]
             IN  IF "level_counts" \notin DOMAIN S2
                 THEN [P |-> except_clause([P EXCEPT !.stats = S2]),
                       entry |-> NoEntry, ret |-> "raise"]
                 ELSE LET P1 == [P EXCEPT
                                   !.stats = update_detailed_stats(S2, entry),
                                   !.events = Append(@, Event("counted", entry, "-",
                                                              FALSE, TRUE))]
                      IN  [P |-> parser_notify_callbacks(P1, cbs, 1, entry),
                           entry |-> entry, ret |-> "entry"]

\* asyncio.gather(*tasks, return_exceptions=True) over the lines of a
\* chunk: the tasks run in the order of the list, the results are in that
\* order.
RECURSIVE gather(_, _, _, _)
gather(P, cbs, chunk, key) ==
    IF chunk = <<>> THEN [P |-> P, results |-> <<>>]
    ELSE LET r == parse_log_line(P, cbs, Head(chunk).line, key, Head(chunk).fault)
             g == gather(r.P, cbs, Tail(chunk), key)
         IN  [P |-> g.P, results |-> <<[ret |-> r.ret, entry |-> r.entry]>> \o g.results]

\* A chunking that takes whole chunks only.
ChunkWhole(items, i, chunk_size) ==
    IF i + chunk_size - 1 > Len(items) THEN <<>>
    ELSE SubSeq(items, i, i + chunk_size - 1)

\* log_lines[i : i + chunk_size], i counted from 1.
Chunk(items, i, chunk_size) ==
    SubSeq(items, i, Min({i + chunk_size - 1, Len(items)}))

\* The results that are no exception and no empty entry.
RECURSIVE Kept(_)
Kept(results) ==
    IF results = <<>> THEN <<>>
    ELSE (IF Head(results).ret = "entry" THEN <<Head(results).entry>> ELSE <<>>)
         \o Kept(Tail(results))

\* parse_log_batch_optimized, lines 322-341: the loop over the chunks.
RECURSIVE parse_chunks(_, _, _, _, _, _, _)
parse_chunks(P, cbs, items, key, i, chunk_size, out) ==
    IF i > Len(items) THEN [P |-> P, out |-> out]
    ELSE LET g == gather(P, cbs, Chunk(items, i, chunk_size), key)
         IN  parse_chunks(g.P, cbs, items, key, i + chunk_size, chunk_size,
                          out \o Kept(g.results))

\* LogParser.parse_log_batch_optimized(log_lines, process_name)
parse_log_batch_optimized(P, cbs, items, key) ==
    IF items = <<>> THEN [P |-> P, out |-> <<>>]
    ELSE parse_chunks(P, cbs, items, key, 1, Min({BatchSize, Len(items)}), <<>>)

\* A queue that makes room by dropping its oldest item (drop-oldest).
PutDropOldest(queue, item, maxsize) ==
    IF Len(queue) >= maxsize
    THEN [queue |-> Append(Tail(queue), item), ok |-> TRUE]
    ELSE [queue |-> Append(queue, item), ok |-> TRUE]

\* asyncio.Queue.put_nowait(item): QueueFull when maxsize items are held.
put_nowait(queue, item, maxsize) ==
    IF Len(queue) >= maxsize
    THEN [queue |-> queue, ok |-> FALSE]
    ELSE [queue |-> Append(queue, item), ok |-> TRUE]

\* A worker slot: pc is "none" (no such task), "get" (awaiting the queue),
\* "notify" (suspended in an awaited callback) or "done"; cancel is the
\* pending cancellation request of Task.cancel().
NoWorker == [pc |-> "none", cancel |-> FALSE, entry |-> NoEntry, idx |-> 0]

IdleCaller == [pc |-> "idle", entry |-> NoEntry, idx |-> 0]

IdleStopper == [pc |-> "idle", task |-> 0]

MaxWorkers == 2             \* worker tasks that exist at a time
Workers == 1..MaxWorkers

\* LogService.__init__
\* No call of process_log_batch so far.
IdleBatch ==
    [pc |-> "idle", items |-> <<>>, key |-> "-", pos |-> 0, out |-> <<>>,
     entry |-> NoEntry, idx |-> 0, errors0 |-> 0]

\* LogParser.__init__, lines 44-46: nothing buffered, no flush, no batch.
EmptyBuffer ==
    /\ batch_buffer = <<>>
    /\ batch_process_name = ""
    /\ flushes = <<>>
    /\ added = <<>>
    /\ tasks = <<>>
    /\ progress = <<>>

IdleService ==
    /\ processing_stats = ZeroStats
    /\ processing_queue = <<>>
    /\ processing_task = 0
    /\ workers = [w \in Workers |-> NoWorker]
    /\ caller = IdleCaller
    /\ stopper = IdleStopper
    /\ events = <<>>
    /\ stop_returned = FALSE
    /\ stale = 0
    /\ steady = {}
    /\ batch = IdleBatch
    /\ EmptyBuffer

IdlePipeline == callbacks = <<>> /\ IdleService

(***************************************************************************)
(* The registry and the classifier as a state machine (SpecClassify)       *)
(***************************************************************************)
MaxCustom == 2          \* custom patterns registered at a time

CustomLevels     == {"critical", "warning", "error"}
CustomRegexes    == {{"OOM"}, {"ERROR"}}
CustomPriorities == {0, 1, 2}

ClassifyLines ==
    { <<"x">>, <<"ERROR">>, <<"x", "WARN">>, <<"[ERROR]", "WARN">>,
      <<"OOM", "FATAL">>, <<"OOM", " ", "x">> }

NoOp == [op |-> "init", arg |-> <<>>, ret |-> "none"]

CustomCount ==
    Len(Concat([i \in 1..Len(custom_patterns.keys) |->
                    custom_patterns.lists[custom_patterns.keys[i]]]))

EmptyStore ==
    /\ logs = [k \in Keys |-> <<>>]
    /\ all_logs = <<>>
    /\ appended = <<>>

InitClassify ==
    /\ patterns = DefaultPatterns
    /\ custom_patterns = EmptyDict
    /\ loaded = Registry(DefaultPatterns, EmptyDict)
    /\ EmptyStore
    /\ IdlePipeline
    /\ last = NoOp

AddCustomPattern(level, regex, priority) ==
    /\ CustomCount < MaxCustom \/ ~Compiles(regex)
    /\ LET r == add_custom_pattern(level, regex, priority)
       IN  /\ custom_patterns' = r.custom_patterns
           /\ loaded' = Registry(patterns, r.custom_patterns)
           /\ last' = [op |-> "add_custom_pattern", arg |-> <<level, regex, priority>>,
                       ret |-> r.ret]
    /\ UNCHANGED <<patterns, storeVars, pipeVars, bufVars, taskVars>>

\* LogClassifier._detect_log_level on one line, under one iteration order.
Classify(text) ==
    \E order \in IterationOrders(text) :
        /\ last' = [op |-> "classify", arg |-> text, ret |-> detect_log_level(text, order)]
        /\ UNCHANGED <<regVars, bufVars, taskVars, storeVars, pipeVars>>

NextClassify ==
    \/ \E l \in CustomLevels, r \in CustomRegexes, p \in CustomPriorities :
           AddCustomPattern(l, r, p)
    \/ \E t \in ClassifyLines : Classify(t)

SpecClassify == InitClassify /\ [][NextClassify]_vars

(***************************************************************************)
(* The registry under its own operations (SpecRegistry): a manager built   *)
(* over one of the configuration files, custom patterns added, some with   *)
(* an expression that does not compile, the file replaced and reloaded,    *)
(* and lines classified in between.                                        *)
(***************************************************************************)
InvalidRegex == {"("}

PatternInfo(regex, priority) == [regex |-> regex, priority |-> priority]

PatternList(items) == [iterable |-> TRUE, items |-> items]

NoList == [iterable |-> FALSE, items |-> <<>>]

\* config/log_patterns.yaml: no file; a file that is no YAML; a file with
\* no pattern at all; a file with no info patterns and one expression that
\* does not compile; a file whose second level holds no list; a file whose
\* custom section holds no list after a level that was parsed.
Configs ==
    { [file |-> "missing", patterns |-> <<>>, custom_patterns |-> <<>>],
      [file |-> "unreadable", patterns |-> <<>>, custom_patterns |-> <<>>],
      [file |-> "ok",
       patterns |-> << [level |-> "critical",
                        list |-> PatternList(<< PatternInfo({"OOM"}, 1) >>)] >>,
       custom_patterns |-> << [level |-> "error",
                               list |-> PatternList(<< PatternInfo({"ERROR"}, 0) >>)],
                              [level |-> "warning", list |-> NoList] >>],
      [file |-> "ok", patterns |-> <<>>, custom_patterns |-> <<>>],
      [file |-> "ok",
       patterns |-> << [level |-> "error",
                        list |-> PatternList(<< PatternInfo({"ERROR"}, 1),
                                                PatternInfo(InvalidRegex, 1) >>)] >>,
       custom_patterns |-> << [level |-> "critical",
                               list |-> PatternList(<< PatternInfo({"OOM"}, 0) >>)] >>],
      [file |-> "ok",
       patterns |-> << [level |-> "error",
                        list |-> PatternList(<< PatternInfo({"ERROR"}, 1) >>)],
                       [level |-> "warning", list |-> NoList] >>,
       custom_patterns |-> <<>>] }

RegistryLevels     == {"critical", "error"}
RegistryRegexes    == {{"OOM"}, InvalidRegex}
RegistryPriorities == {0, 2}
RegistryLines      == { <<"x">>, <<"ERROR">>, <<"OOM", "INFO">> }

\* PatternManager.__init__: both dicts empty, then _load_patterns().
InitRegistry ==
    /\ \E config \in Configs :
          LET r == load_patterns(Registry(EmptyDict, EmptyDict), config)
          IN  /\ patterns = r.patterns
              /\ custom_patterns = r.custom_patterns
              /\ loaded = Registry(r.patterns, r.custom_patterns)
              /\ last = [op |-> "load_patterns", arg |-> config, ret |-> r.ret]
    /\ EmptyStore
    /\ IdlePipeline

\* The file is replaced by config and reload_patterns() is called; ret
\* tells whether the call changed the registry.
Reload(config) ==
    /\ LET r == reload_patterns(config)
       IN  /\ patterns' = r.patterns
           /\ custom_patterns' = r.custom_patterns
           /\ loaded' = IF r.done THEN Registry(r.patterns, r.custom_patterns)
                                  ELSE loaded
           /\ last' = [op |-> "reload_patterns", arg |-> config,
                       ret |-> IF r.ret = "raise" THEN "raise"
                               ELSE IF Registry(r.patterns, r.custom_patterns)
                                          = Registry(patterns, custom_patterns)
                               THEN "same" ELSE "replaced"]
    /\ UNCHANGED <<storeVars, pipeVars, bufVars, taskVars>>

NextRegistry ==
    \/ \E l \in RegistryLevels, r \in RegistryRegexes, p \in RegistryPriorities :
           AddCustomPattern(l, r, p)
    \/ \E config \in Configs : Reload(config)
    \/ \E t \in RegistryLines : Classify(t)

SpecRegistry == InitRegistry /\ [][NextRegistry]_vars

(***************************************************************************)
(* Claims about classification                                             *)
(***************************************************************************)
\* Every pattern of the registry, standard and custom, with its level.
AllRegistered ==
    UNION { { [level |-> l, pattern |-> DictGet(patterns, l)[i]] :
                i \in 1..Len(DictGet(patterns, l)) }
            \cup
            { [level |-> l, pattern |-> DictGet(custom_patterns, l)[i]] :
                i \in 1..Len(DictGet(custom_patterns, l)) } : l \in Levels }

Matching(text) == {m \in AllRegistered : Match(m.pattern, text)}

MinPriority(text) == Min({m.pattern.priority : m \in Matching(text)})

\* The levels that own a matching pattern of the globally minimum priority.
MinLevels(text) ==
    {m.level : m \in {x \in Matching(text) : x.pattern.priority = MinPriority(text)}}

Classified == last.op = "classify"

\* C1: whenever a line matching at least one pattern has been classified,
\* the level returned owns a matching pattern whose priority is the minimum
\* over all matching patterns, standard and custom, of every level, for
\* every registration order and every iteration order of the levels.
C1_MinPriorityWins ==
    (Classified /\ Matching(last.arg) # {}) => last.ret \in MinLevels(last.arg)

\* C1 witness: a custom pattern of priority 0 won over a matching standard
\* pattern of priority 1.
C1_Witness ==
    /\ Classified
    /\ last.arg = <<"OOM", "FATAL">>
    /\ last.ret = "critical"
    /\ \E m \in Matching(last.arg) : m.level = "error" /\ m.pattern.priority = 1
    /\ MinPriority(last.arg) = 0

\* Level registration order: the keys of patterns, then the new keys of
\* custom_patterns, each in insertion order.
RECURSIVE Dedup(_)
Dedup(s) ==
    IF s = <<>> THEN <<>>
    ELSE LET d == Dedup(SubSeq(s, 1, Len(s) - 1))
         IN  IF s[Len(s)] \in Range(d) THEN d ELSE Append(d, s[Len(s)])

RegistrationOrder == Dedup(patterns.keys \o custom_patterns.keys)

FirstRegistered(S) ==
    RegistrationOrder[Min({i \in 1..Len(RegistrationOrder) : RegistrationOrder[i] \in S})]

\* C2: when patterns of different levels match a line with the same minimum
\* priority, the classification returns the level registered first.
C2_TieFirstRegistered ==
    (Classified /\ Matching(last.arg) # {} /\ Cardinality(MinLevels(last.arg)) > 1)
        => last.ret = FirstRegistered(MinLevels(last.arg))


(***************************************************************************)
(* The repository alone (SpecStore): entries are saved one at a time, the  *)
(* n-th with timestamp n.  The initial states are the empty repository and *)
(* a repository one entry short of its global capacity, filled by          *)
(* save_log_entry with one entry of svc2 and then entries of svc1.         *)
(***************************************************************************)
MaxAppends == 6             \* entries saved after the initial state

StoredEntry(n, key) == LogEntry(n, "info", <<"x">>, key)

RECURSIVE Prefilled(_)
Prefilled(n) ==
    IF n = 0
    THEN [logs |-> [k \in Keys |-> <<>>], all_logs |-> <<>>, appended |-> <<>>]
    ELSE save_log_entry(Prefilled(n - 1),
                        StoredEntry(n, IF n = 1 THEN "svc2" ELSE "svc1"))

InitStore ==
    /\ patterns = DefaultPatterns
    /\ custom_patterns = EmptyDict
    /\ loaded = Registry(DefaultPatterns, EmptyDict)
    /\ \E n \in {0, GlobalCapacity - 1} :
          /\ logs = Prefilled(n).logs
          /\ all_logs = Prefilled(n).all_logs
          /\ appended = Prefilled(n).appended
    /\ IdlePipeline
    /\ last = NoOp

\* Entries saved since the initial state (MaxAppends < GlobalCapacity - 1).
SavedSinceInit ==
    IF Len(appended) >= GlobalCapacity - 1
    THEN Len(appended) - (GlobalCapacity - 1)
    ELSE Len(appended)

SaveLogEntry(key) ==
    LET entry == StoredEntry(Len(appended) + 1, key)
    IN  /\ SavedSinceInit < MaxAppends
        /\ SetStore(save_log_entry(Store, entry))
        /\ last' = [op |-> "save_log_entry", arg |-> entry, ret |-> "none"]
        /\ UNCHANGED <<regVars, bufVars, taskVars, pipeVars>>

NextStore == \E k \in Keys : SaveLogEntry(k)

SpecStore == InitStore /\ [][NextStore]_vars

(***************************************************************************)
(* Claims about the repository                                             *)
(***************************************************************************)
RECURSIVE OfKey(_, _)
OfKey(s, key) ==
    IF s = <<>> THEN <<>>
    ELSE (IF Head(s).process_name = key THEN <<Head(s)>> ELSE <<>>) \o OfKey(Tail(s), key)

LastN(s, n) == IF Len(s) > n THEN SubSeq(s, Len(s) - n + 1, Len(s)) ELSE s

\* C3: a key that received more entries than the per-key capacity holds
\* exactly the last MaxLogsPerProcess entries saved for it, oldest first.
C3_FifoEviction ==
    \A k \in Keys :
        Len(OfKey(appended, k)) > MaxLogsPerProcess
            => logs[k] = LastN(OfKey(appended, k), MaxLogsPerProcess)

\* C3 witness: a key overflowed by at least two entries, interleaved with
\* saves for the other key.
C3_Witness ==
    /\ last.op = "save_log_entry"
    /\ Len(appended) <= MaxAppends
    /\ Len(OfKey(appended, "svc1")) >= MaxLogsPerProcess + 2
    /\ Len(OfKey(appended, "svc2")) >= 1
    /\ Len(logs["svc1"]) = MaxLogsPerProcess

\* C4: no per-key buffer holds more than max_logs_per_process entries and
\* the global buffer holds at most ten times that many.
C4_BoundedBuffers ==
    /\ \A k \in Keys : Len(logs[k]) <= MaxLogsPerProcess
    /\ Len(all_logs) <= GlobalFactor * MaxLogsPerProcess

\* C4 witness: more entries were saved than the global buffer holds, for
\* two keys, and both bounds are met with equality.
C4_Witness ==
    /\ last.op = "save_log_entry"
    /\ Len(appended) > GlobalFactor * MaxLogsPerProcess
    /\ Len(all_logs) = GlobalFactor * MaxLogsPerProcess
    /\ \A k \in Keys : Len(OfKey(appended, k)) > MaxLogsPerProcess
    /\ \A k \in Keys : Len(logs[k]) = MaxLogsPerProcess


(***************************************************************************)
(* Queries of the repository (SpecQuery): entries of two keys and two      *)
(* levels are saved, each with a timestamp later than any before it or     *)
(* with timestamp 1 (an entry that carries an old time), and the           *)
(* repository is queried between the saves with every combination of       *)
(* filters.                                                                *)
(***************************************************************************)
MaxSaves == 2               \* entries saved before and between the queries

QueryKeys == {"", "svc1"}               \* "" is no key
QueryLevels == {"", "error"}            \* "" is no level
QueryStarts == {0, 2}                   \* 0 is no start_time
QueryEnds == {0, 2}                     \* 0 is no end_time
QueryLimits == 0..2

InitQuery ==
    /\ patterns = DefaultPatterns
    /\ custom_patterns = EmptyDict
    /\ loaded = Registry(DefaultPatterns, EmptyDict)
    /\ logs = [k \in Keys |-> <<>>]
    /\ all_logs = <<>>
    /\ appended = <<>>
    /\ IdlePipeline
    /\ last = [op |-> "init", arg |-> <<>>, ret |-> <<>>]

SaveEntry(old, level, key) ==
    LET entry == LogEntry(IF old THEN 1 ELSE Len(appended) + 2,
                          level, <<"x">>, key)
    IN  /\ Len(appended) < MaxSaves
        /\ SetStore(save_log_entry(Store, entry))
        /\ last' = [op |-> "save_log_entry", arg |-> entry, ret |-> <<>>]
        /\ UNCHANGED <<regVars, bufVars, taskVars, pipeVars>>

GetLogs(process_name, level, start_time, end_time, limit) ==
    /\ last' = [op |-> "get_logs",
                arg |-> [process_name |-> process_name, level |-> level,
                         start_time |-> start_time, end_time |-> end_time,
                         limit |-> limit],
                ret |-> get_logs(Store, process_name, level,
                                 start_time, end_time, limit)]
    /\ UNCHANGED <<regVars, bufVars, taskVars, storeVars, pipeVars>>

NextQuery ==
    \/ \E old \in BOOLEAN, l \in {"info", "error"}, k \in Keys :
          SaveEntry(old, l, k)
    \/ \E k \in QueryKeys, l \in QueryLevels, s \in QueryStarts,
          e \in QueryEnds, n \in QueryLimits : GetLogs(k, l, s, e, n)

SpecQuery == InitQuery /\ [][NextQuery]_vars

(***************************************************************************)
(* Claims about queries (SpecQuery)                                        *)
(***************************************************************************)
\* The number of positions of s that hold x.
Occurrences(s, x) == Cardinality({i \in 1..Len(s) : s[i] = x})

\* The buffer a query reads.
RelevantBuffer(q) == IF q.process_name = "" THEN all_logs ELSE logs[q.process_name]

\* The entry passes every filter the query supplies.
Satisfies(x, q) ==
    /\ q.level # "" => x.level = q.level
    /\ q.start_time # 0 => q.start_time <= x.timestamp
    /\ q.end_time # 0 => x.timestamp <= q.end_time

\* ret is the newest-first list of the entries of the relevant buffer that
\* pass the filters, cut to q.limit entries.
Answers(q, ret) ==
    LET buffer == RelevantBuffer(q)
        matching == {i \in 1..Len(buffer) : Satisfies(buffer[i], q)}
    IN  /\ Len(ret) = IF q.limit < Cardinality(matching)
                      THEN q.limit ELSE Cardinality(matching)
        /\ \A i \in 1..Len(ret) :
              /\ Satisfies(ret[i], q)
              /\ Occurrences(ret, ret[i]) <= Occurrences(buffer, ret[i])
        /\ \A i, j \in 1..Len(ret) :
              i < j => ret[i].timestamp >= ret[j].timestamp
        /\ \A i \in matching :
              \/ Occurrences(ret, buffer[i]) = Occurrences(buffer, buffer[i])
              \/ \A j \in 1..Len(ret) : ret[j].timestamp >= buffer[i].timestamp

\* C26: a query returns the entries of the relevant buffer (the key's when
\* a key is given, else the global one) that pass all supplied filters,
\* newest first and cut to the limit, returns no entry of another key or
\* level, and leaves the buffers as they were.
C26_QueryFiltersAndOrders ==
    [][last'.op = "get_logs" =>
          /\ logs' = logs
          /\ all_logs' = all_logs
          /\ Answers(last'.arg, last'.ret)
          /\ \A i \in 1..Len(last'.ret) :
                /\ last'.arg.process_name # "" =>
                      last'.ret[i].process_name = last'.arg.process_name
                /\ last'.arg.level # "" => last'.ret[i].level = last'.arg.level]_vars

\* C26 witness: a query by key, level and time range has cut its answer to
\* the limit, while the buffers hold an entry of another key and one of
\* another level.
C26_Witness ==
    /\ last.op = "get_logs"
    /\ last.arg.process_name = "svc1"
    /\ last.arg.level = "error"
    /\ last.arg.start_time # 0
    /\ last.arg.end_time # 0
    /\ Len(last.ret) = last.arg.limit
    /\ Len(last.ret) >= 1
    /\ \E i \in 1..Len(all_logs) : all_logs[i].process_name # "svc1"
    /\ \E i \in 1..Len(all_logs) : all_logs[i].level # "error"


(***************************************************************************)
(* The ingestion pipeline (Spec): one foreground caller, the background    *)
(* workers and one caller of stop_background_processing, interleaved at    *)
(* the suspension points of the event loop.                                *)
(***************************************************************************)
QueueMaxSize == 2           \* maxsize of _processing_queue
MaxIngest == 2              \* non-blank lines handed to the pipeline
MaxCallbacks == 2           \* length of _callbacks

PipeLines == { <<>>, <<" ">>, <<"x">>, <<" ", "ERROR", " ">> }
QueueLines == { <<" ">>, <<"x", " ">> }
PipeKeys == {"svc1"}

\* The observers registered before the background processing is used.
InitCallbacks == { <<>>, <<"cb_async">> }

Pipe ==
    [logs |-> logs, all_logs |-> all_logs, appended |-> appended,
     stats |-> processing_stats, events |-> events]

SetPipe(P) ==
    /\ logs' = P.logs
    /\ all_logs' = P.all_logs
    /\ appended' = P.appended
    /\ processing_stats' = P.stats
    /\ events' = P.events

Op(op, arg, ret) == [op |-> op, arg |-> arg, ret |-> ret]

\* Non-blank lines taken so far: saved, failed, or waiting in the queue.
Submitted ==
    Len(appended) + processing_stats.processing_errors
      + Cardinality({i \in 1..Len(processing_queue) : strip(processing_queue[i].line) # <<>>})

MaySubmit(line) == strip(line) = <<>> \/ Submitted < MaxIngest

InitPipeline ==
    /\ patterns = DefaultPatterns
    /\ custom_patterns = EmptyDict
    /\ loaded = Registry(DefaultPatterns, EmptyDict)
    /\ EmptyStore
    /\ IdlePipeline
    /\ last = NoOp

\* The entries of the calls of process_log_line that are suspended.
InProgress == {caller.entry} \cup {workers[w].entry : w \in Workers}

\* The state after a call of process_log_line began: the history keeps the
\* events of that call and of the suspended ones.
Began(r) ==
    IF r.ret = "entry"
    THEN [r.P EXCEPT !.events =
             SelectSeq(@, LAMBDA e : e.entry \in InProgress \cup {r.entry})]
    ELSE r.P

\* await process_log_line(line, key) by the foreground caller.
IngestLine(line, key, fault) ==
    /\ caller.pc = "idle"
    /\ MaySubmit(line)
    /\ LET r == process_log_line(Pipe, callbacks, line, key, fault)
       IN  /\ SetPipe(Began(r))
           /\ caller' = IF r.pc = "done" THEN IdleCaller
                        ELSE [pc |-> "notify", entry |-> r.entry, idx |-> r.idx]
           /\ last' = Op(IF r.pc = "done" THEN "process_log_line"
                                           ELSE "process_log_line_suspended",
                         <<line, key>>, r.ret)
    /\ steady' = IF strip(line) = <<>> \/ fault # "none" THEN steady ELSE Range(callbacks)
    /\ UNCHANGED <<regVars, bufVars, taskVars, callbacks, processing_queue, processing_task, workers,
                   stopper, stop_returned, stale, batch>>

\* The foreground caller resumes after an awaited callback.
IngestResume ==
    /\ caller.pc = "notify"
    /\ LET r == notify_callbacks(Pipe, callbacks, caller.idx, caller.entry)
       IN  /\ SetPipe(r.P)
           /\ caller' = IF r.pc = "done" THEN IdleCaller
                        ELSE [caller EXCEPT !.idx = r.idx]
           /\ last' = Op(IF r.pc = "done" THEN "process_log_line"
                                           ELSE "process_log_line_suspended",
                         caller.entry, r.ret)
    /\ UNCHANGED <<regVars, bufVars, taskVars, callbacks, processing_queue, processing_task, workers,
                   stopper, stop_returned, stale, steady, batch>>

\* LogService.add_callback(callback)
AddCallback(observer) ==
    /\ Len(callbacks) < MaxCallbacks
    /\ callbacks' = Append(callbacks, observer)
    /\ last' = Op("add_callback", <<>>, "none")
    /\ UNCHANGED <<regVars, bufVars, taskVars, storeVars, processing_stats, processing_queue,
                   processing_task, workers, caller, stopper, events, stop_returned,
                   stale, steady, batch>>

\* LogService.remove_callback(callback): list.remove drops the first one.
RemoveCallback(observer) ==
    /\ callbacks' =
          IF observer \in Range(callbacks)
          THEN LET i == Min({j \in 1..Len(callbacks) : callbacks[j] = observer})
               IN  SubSeq(callbacks, 1, i - 1) \o SubSeq(callbacks, i + 1, Len(callbacks))
          ELSE callbacks
    /\ last' = Op("remove_callback", <<>>, "none")
    /\ steady' = steady \cap Range(callbacks')
    /\ UNCHANGED <<regVars, bufVars, taskVars, storeVars, processing_stats, processing_queue,
                   processing_task, workers, caller, stopper, events, stop_returned,
                   stale, batch>>

\* LogService.queue_log_for_processing(log_line, process_name)
Enqueue(line, key) ==
    /\ Len(processing_queue) >= QueueMaxSize \/ MaySubmit(line)
    /\ LET r == put_nowait(processing_queue, [line |-> line, key |-> key], QueueMaxSize)
       IN  /\ processing_queue' = r.queue
           /\ last' = Op("queue_log_for_processing", <<>>,
                         IF r.ok THEN "true" ELSE "false")
    /\ UNCHANGED <<regVars, bufVars, taskVars, storeVars, callbacks, processing_stats, processing_task,
                   workers, caller, stopper, events, stop_returned, stale, steady, batch>>


\* task.done()
Done(w) == workers[w].pc = "done"

\* A worker task is alive from create_task until it has finished.
Alive(w) == workers[w].pc \in {"get", "notify"}

\* A slot no task object in use occupies.
Free(w) ==
    /\ ~Alive(w)
    /\ ~(stopper.pc = "await" /\ stopper.task = w)

\* start_background_processing, lines 246-248: the guard of the early return.
AlreadyRunning == processing_task # 0 /\ ~Done(processing_task)

\* LogService.start_background_processing()
StartBackground ==
    /\ IF AlreadyRunning
       THEN /\ last' = Op("start_background_processing", <<>>, "already running")
            /\ UNCHANGED <<processing_task, workers>>
       ELSE \E w \in Workers :
               /\ Free(w)
               /\ \A v \in Workers : Free(v) => w <= v
               /\ workers' = [workers EXCEPT
                                 ![w] = [NoWorker EXCEPT !.pc = "get"]]
               /\ processing_task' = w
               /\ last' = Op("start_background_processing", <<>>, "started")
    /\ stop_returned' = FALSE
    /\ UNCHANGED <<regVars, bufVars, taskVars, storeVars, callbacks, processing_stats, processing_queue,
                   caller, stopper, events, stale, steady, batch>>

\* LogService.stop_background_processing() up to `await self._processing_task`:
\* nothing to do without a task; a task that is done is awaited without
\* suspension; otherwise the task is cancelled and the caller suspends.
StopBegin ==
    /\ stopper.pc = "idle"
    /\ IF processing_task = 0
       THEN /\ stop_returned' = TRUE
            /\ last' = Op("stop_background_processing", <<>>, "none")
            /\ UNCHANGED <<processing_task, workers, stopper, stale, steady, batch>>
       ELSE IF Done(processing_task)
       THEN /\ processing_task' = 0
            /\ stop_returned' = TRUE
            /\ last' = Op("stop_background_processing", <<>>, "none")
            /\ UNCHANGED <<workers, stopper, stale, steady, batch>>
       ELSE /\ workers' = [workers EXCEPT ![processing_task].cancel = TRUE]
            /\ stopper' = [pc |-> "await", task |-> processing_task]
            /\ last' = Op("stop_background_processing_suspended", <<>>, "none")
            /\ stale' = Len(processing_queue)
            /\ UNCHANGED <<processing_task, stop_returned, steady, batch>>
    /\ UNCHANGED <<regVars, bufVars, taskVars, storeVars, callbacks, processing_stats, processing_queue,
                   caller, events>>

\* stop_background_processing resumes when the awaited task has finished:
\* self._processing_task = None, whatever it holds by now.
StopResume ==
    /\ stopper.pc = "await"
    /\ Done(stopper.task)
    /\ processing_task' = 0
    /\ stopper' = IdleStopper
    /\ stop_returned' = TRUE
    /\ last' = Op("stop_background_processing", <<>>, "none")
    /\ UNCHANGED <<regVars, bufVars, taskVars, storeVars, callbacks, processing_stats, processing_queue,
                   workers, caller, events, stale, steady, batch>>

\* A worker that ends when the call it made raised.
WorkerEndsOnError(worker, r) ==
    IF r.ret = "raise" THEN [NoWorker EXCEPT !.pc = "done"]
    ELSE IF r.pc = "done" THEN worker
    ELSE [worker EXCEPT !.pc = "notify", !.entry = r.entry, !.idx = r.idx]

\* _background_processor, lines 314-324: the worker after the call of
\* process_log_line began.  It is suspended in an awaited callback, or the
\* call is over, raised or not, and the loop is back at the queue.
WorkerAfter(worker, r) ==
    IF r.pc = "done" THEN worker
    ELSE [worker EXCEPT !.pc = "notify", !.entry = r.entry, !.idx = r.idx]

\* _background_processor: the queue yields its oldest item and the worker
\* runs process_log_line on it.
WorkerGet(w, fault) ==
    /\ workers[w].pc = "get"
    /\ ~workers[w].cancel
    /\ processing_queue # <<>>
    /\ LET item == Head(processing_queue)
           r == process_log_line(Pipe, callbacks, item.line, item.key, fault)
       IN  /\ SetPipe(Began(r))
           /\ processing_queue' = Tail(processing_queue)
           /\ workers' = [workers EXCEPT ![w] = WorkerAfter(@, r)]
           /\ last' = Op("worker_ingest", <<>>, r.ret)
    /\ stale' = IF stale > 0 THEN stale - 1 ELSE 0
    /\ steady' = IF strip(Head(processing_queue).line) = <<>> \/ fault # "none"
                 THEN steady ELSE Range(callbacks)
    /\ UNCHANGED <<regVars, bufVars, taskVars, callbacks, processing_task, caller, stopper, stop_returned,
                   batch>>

\* A worker that returns when wait_for times out on the empty queue.
WorkerEndsOnTimeout(w) ==
    /\ workers[w].pc = "get"
    /\ ~workers[w].cancel
    /\ processing_queue = <<>>
    /\ workers' = [workers EXCEPT ![w] = [NoWorker EXCEPT !.pc = "done"]]
    /\ last' = Op("worker_timeout", <<>>, "none")
    /\ UNCHANGED <<regVars, bufVars, taskVars, storeVars, callbacks, processing_stats,
                   processing_queue, processing_task, caller, stopper, events,
                   stop_returned, stale, steady, batch>>

\* _background_processor, lines 306-321: wait_for times out on the empty
\* queue and the loop polls again.
WorkerTimeout(w) ==
    /\ workers[w].pc = "get"
    /\ ~workers[w].cancel
    /\ processing_queue = <<>>
    /\ last' = Op("worker_timeout", <<>>, "none")
    /\ UNCHANGED <<regVars, bufVars, taskVars, storeVars, pipeVars>>

\* The worker resumes after an awaited callback and, when the call is over,
\* goes back to the queue.
WorkerResume(w) ==
    /\ workers[w].pc = "notify"
    /\ ~workers[w].cancel
    /\ LET r == notify_callbacks(Pipe, callbacks, workers[w].idx, workers[w].entry)
       IN  /\ SetPipe(r.P)
           /\ workers' = [workers EXCEPT ![w] =
                  IF r.pc = "done" THEN [NoWorker EXCEPT !.pc = "get"]
                  ELSE [@ EXCEPT !.idx = r.idx]]
           /\ last' = Op("worker_resume", <<>>, "none")
    /\ UNCHANGED <<regVars, bufVars, taskVars, callbacks, processing_queue, processing_task, caller,
                   stopper, stop_returned, stale, steady, batch>>

\* A worker that swallows the cancellation and goes on.
WorkerIgnoresCancel(w) ==
    /\ Alive(w)
    /\ workers[w].cancel
    /\ workers' = [workers EXCEPT ![w].cancel = FALSE]
    /\ last' = Op("worker_cancelled", <<>>, "none")
    /\ UNCHANGED <<regVars, bufVars, taskVars, storeVars, callbacks, processing_stats,
                   processing_queue, processing_task, caller, stopper, events,
                   stop_returned, stale, steady, batch>>

\* CancelledError is raised at the suspension point of a cancelled worker;
\* _background_processor catches it and returns.
WorkerCancelled(w) ==
    /\ Alive(w)
    /\ workers[w].cancel
    /\ workers' = [workers EXCEPT ![w] = [NoWorker EXCEPT !.pc = "done"]]
    /\ last' = Op("worker_cancelled", <<>>, "none")
    /\ UNCHANGED <<regVars, bufVars, taskVars, storeVars, callbacks, processing_stats, processing_queue,
                   processing_task, caller, stopper, events, stop_returned, stale,
                   steady, batch>>

\* The pipeline with its background processing: lines are queued, the
\* workers ingest them, start and stop are called concurrently.
InitBackground ==
    /\ patterns = DefaultPatterns
    /\ custom_patterns = EmptyDict
    /\ loaded = Registry(DefaultPatterns, EmptyDict)
    /\ EmptyStore
    /\ IdleService
    /\ callbacks \in InitCallbacks
    /\ last = NoOp

Next ==
    \/ \E l \in QueueLines, k \in PipeKeys, f \in Faults : IngestLine(l, k, f)
    \/ IngestResume
    \/ \E l \in QueueLines, k \in PipeKeys : Enqueue(l, k)
    \/ StartBackground
    \/ StopBegin
    \/ StopResume
    \/ \E w \in Workers, f \in Faults : WorkerGet(w, f)
    \/ \E w \in Workers : WorkerTimeout(w)
    \/ \E w \in Workers : WorkerResume(w)
    \/ \E w \in Workers : WorkerCancelled(w)

Spec == InitBackground /\ [][Next]_vars

\* The background processing under the scheduling of the event loop
\* (SpecLive): lines are queued, start and stop are called concurrently.
\* The loop runs every task that is ready: a cancelled worker gets its
\* CancelledError, a worker waiting at a queue that holds an item gets
\* it, an awaited observer returns, and a stop whose awaited task has
\* finished resumes.
NextLive ==
    \/ \E l \in QueueLines, k \in PipeKeys : Enqueue(l, k)
    \/ StartBackground
    \/ StopBegin
    \/ StopResume
    \/ \E w \in Workers, f \in {"none", "classify"} : WorkerGet(w, f)
    \/ \E w \in Workers : WorkerTimeout(w)
    \/ \E w \in Workers : WorkerResume(w)
    \/ \E w \in Workers : WorkerCancelled(w)

Scheduling ==
    /\ WF_vars(StopResume)
    /\ \A w \in Workers : WF_vars(WorkerCancelled(w))

SpecLive == InitBackground /\ [][NextLive]_vars /\ Scheduling

\* The same with a worker that is scheduled whenever it can run (SpecDrain):
\* a worker waiting at a queue that holds an item gets an item, and an
\* observer the worker awaits returns.
\* WorkerGet(w, f) is enabled:
CanGet(w) ==
    workers[w].pc = "get" /\ ~workers[w].cancel /\ processing_queue # <<>>

\* WorkerResume(w) is enabled:
CanResume(w) == workers[w].pc = "notify" /\ ~workers[w].cancel

\* The step is WorkerGet(w, f) for some f:
Gets(w) ==
    /\ CanGet(w)
    /\ last'.op = "worker_ingest"
    /\ \A v \in Workers \ {w} : workers'[v] = workers[v]

\* The step is WorkerResume(w):
Resumes(w) ==
    /\ CanResume(w)
    /\ last'.op = "worker_resume"
    /\ \A v \in Workers \ {w} : workers'[v] = workers[v]

\* Weak fairness of the two steps of each worker, WF_vars(A) written as
\* []<>~ENABLED <<A>>_vars \/ []<><<A>>_vars.
WorkerScheduling ==
    \A w \in Workers :
        /\ []<>(~CanGet(w)) \/ []<><<Gets(w)>>_vars
        /\ []<>(~CanResume(w)) \/ []<><<Resumes(w)>>_vars

SpecDrain == InitBackground /\ [][NextLive]_vars /\ Scheduling /\ WorkerScheduling

\* The foreground caller alone: lines are ingested one call at a time while
\* observers are added and removed.
\* The observers that do not raise.
Reliable == {o \in Observers : ~Raises(o)}

NextIngest ==
    \/ \E l \in PipeLines, k \in PipeKeys : IngestLine(l, k, "none")
    \/ IngestResume
    \/ \E o \in Reliable : AddCallback(o)
    \/ \E o \in Reliable : RemoveCallback(o)

SpecIngest == InitPipeline /\ [][NextIngest]_vars

\* Calls of process_log_line over every list of observers, failing ones
\* included, registered beforehand (SpecObservers).
ObserverLists == UNION { [1..n -> Observers] : n \in 0..MaxCallbacks }

InitObservers ==
    /\ patterns = DefaultPatterns
    /\ custom_patterns = EmptyDict
    /\ loaded = Registry(DefaultPatterns, EmptyDict)
    /\ EmptyStore
    /\ IdleService
    /\ callbacks \in ObserverLists
    /\ last = NoOp

NextObservers ==
    \/ \E l \in PipeLines, k \in PipeKeys : IngestLine(l, k, "none")
    \/ IngestResume

SpecObservers == InitObservers /\ [][NextObservers]_vars

\* Calls of process_log_line with lines of every level (SpecAlert), the
\* observers registered beforehand.
AlertLines ==
    { <<"x">>, <<"DEBUG">>, <<"WARN">>, <<"ERROR">>, <<"FATAL">>, <<"FATAL", "FAILED">> }
AlertCallbacks == InitCallbacks \cup { <<"cb_fail", "cb_async">> }

InitAlert ==
    /\ patterns = DefaultPatterns
    /\ custom_patterns = EmptyDict
    /\ loaded = Registry(DefaultPatterns, EmptyDict)
    /\ EmptyStore
    /\ IdleService
    /\ callbacks \in AlertCallbacks
    /\ last = NoOp

NextAlert ==
    \/ \E l \in AlertLines, k \in PipeKeys : IngestLine(l, k, "none")
    \/ IngestResume

SpecAlert == InitAlert /\ [][NextAlert]_vars

\* Calls of process_log_line in which the classification or the repository
\* may fail (SpecFaults), the observers registered beforehand.
InitFaults == InitAlert

NextFaults ==
    \/ \E l \in PipeLines, k \in PipeKeys, f \in Faults : IngestLine(l, k, f)
    \/ IngestResume

SpecFaults == InitFaults /\ [][NextFaults]_vars

\* Calls of process_log_batch (SpecBatch), one at a time, over lines that
\* are blank or not and fail or not, the observers registered beforehand.
MaxBatch == 3               \* lines of one batch, and non-blank lines in all

BatchItems ==
    { [line |-> <<" ">>, fault |-> "none"],
      [line |-> <<"x", " ">>, fault |-> "none"],
      [line |-> <<"x", " ">>, fault |-> "store"] }

Batches == UNION { [1..n -> BatchItems] : n \in 0..MaxBatch }

NonBlank(items) == Cardinality({i \in 1..Len(items) : strip(items[i].line) # <<>>})

\* The batch task moves on with the outcome r of process_log_batch.
SetBatch(r, items, key, errors0) ==
    /\ SetPipe(r.P)
    /\ batch' = [pc |-> r.pc, items |-> items, key |-> key, pos |-> r.pos,
                 out |-> r.out, entry |-> r.entry, idx |-> r.idx, errors0 |-> errors0]
    /\ last' = Op(IF r.pc = "done" THEN "process_log_batch"
                                    ELSE "process_log_batch_suspended", <<>>, "none")

\* await process_log_batch(log_lines, process_name)
BatchStart(items, key) ==
    /\ batch.pc \in {"idle", "done"}
    /\ Submitted + NonBlank(items) <= MaxBatch
    /\ SetBatch(process_log_batch([Pipe EXCEPT !.events = <<>>], callbacks,
                                  items, key, 1, <<>>),
                items, key, processing_stats.processing_errors)
    /\ steady' = Range(callbacks)
    /\ UNCHANGED <<regVars, bufVars, taskVars, callbacks, processing_queue, processing_task, workers,
                   caller, stopper, stop_returned, stale>>

\* process_log_batch resumes after an awaited callback: the line in
\* progress ends, its entry is collected and the loop goes on.
BatchResume ==
    /\ batch.pc = "notify"
    /\ LET n == notify_callbacks(Pipe, callbacks, batch.idx, batch.entry)
       IN  IF n.pc = "notify"
           THEN /\ SetPipe(n.P)
                /\ batch' = [batch EXCEPT !.idx = n.idx]
                /\ last' = Op("process_log_batch_suspended", <<>>, "none")
           ELSE SetBatch(process_log_batch(n.P, callbacks, batch.items, batch.key,
                                           batch.pos + 1,
                                           IF n.ret = "entry"
                                           THEN Append(batch.out, batch.entry)
                                           ELSE batch.out),
                         batch.items, batch.key, batch.errors0)
    /\ UNCHANGED <<regVars, bufVars, taskVars, callbacks, processing_queue, processing_task, workers,
                   caller, stopper, stop_returned, stale, steady>>

InitBatch == InitAlert

NextBatch ==
    \/ \E items \in Batches, k \in PipeKeys : BatchStart(items, k)
    \/ BatchResume

SpecBatch == InitBatch /\ [][NextBatch]_vars

\* Calls of LogParser.parse_log_batch_optimized (SpecParallel), the
\* callbacks registered beforehand.
ParserCallbacks == { <<>>, <<"cb_sync">>, <<"cb_fail", "cb_sync">> }

InitParallel ==
    /\ patterns = DefaultPatterns
    /\ custom_patterns = EmptyDict
    /\ loaded = Registry(DefaultPatterns, EmptyDict)
    /\ EmptyStore
    /\ IdleService
    /\ callbacks \in ParserCallbacks
    /\ last = NoOp

\* await parse_log_batch_optimized(log_lines, process_name)
ParallelBatch(items, key) ==
    /\ processing_stats.total_processed + processing_stats.processing_errors
          + NonBlank(items) <= MaxBatch
    /\ LET r == parse_log_batch_optimized([Pipe EXCEPT !.events = <<>>],
                                          callbacks, items, key)
       IN  /\ SetPipe(r.P)
           /\ batch' = [IdleBatch EXCEPT !.pc = "done", !.items = items, !.key = key,
                                         !.pos = Len(items) + 1, !.out = r.out,
                                         !.errors0 = processing_stats.processing_errors]
    /\ last' = Op("parse_log_batch_optimized", <<>>, "none")
    /\ UNCHANGED <<regVars, bufVars, taskVars, callbacks, processing_queue, processing_task, workers,
                   caller, stopper, stop_returned, stale, steady>>

NextParallel == \E items \in Batches, k \in PipeKeys : ParallelBatch(items, k)

SpecParallel == InitParallel /\ [][NextParallel]_vars

(***************************************************************************)
(* The batch buffer of LogParser (SpecBuffer).  add_to_batch_buffer is a   *)
(* plain method; the flush it triggers is a task of its own that runs      *)
(* later, and a flush is suspended in the gather of every chunk, where     *)
(* lines can be added and other flushes can run.  The tasks of a chunk run *)
(* and the flush resumes in one step: no task of a chunk touches the       *)
(* buffer.                                                                 *)
(***************************************************************************)
MaxAdds == 3                \* calls of add_to_batch_buffer
MaxFlushes == 2             \* flushes begun or triggered, in all

BufferKeys == {"svc1", "svc2"}
BufferItems == {[line |-> <<"x">>, fault |-> "none"],
                [line |-> <<"ERROR">>, fault |-> "classify"]}

\* A buffer that counts as full only beyond the batch size.
BufferOverfull(buffer) == Len(buffer) > BatchSize

\* add_to_batch_buffer, line 357: the buffer is full.
BufferFull(buffer) == Len(buffer) >= BatchSize

InitBuffer ==
    /\ patterns = DefaultPatterns
    /\ custom_patterns = EmptyDict
    /\ loaded = Registry(DefaultPatterns, EmptyDict)
    /\ EmptyStore
    /\ IdleService
    /\ callbacks = <<>>
    /\ last = Op("init", 0, "none")

\* A task of _process_batch_buffer: pc is "pending" (created, not yet run),
\* "running" (suspended in a gather) or "done"; lines is the copy it took.
FlushTask(pc, lines, key, manual) ==
    [pc |-> pc, lines |-> lines, key |-> key, pos |-> 1,
     chunk_size |-> Min({BatchSize, Len(lines)}), manual |-> manual]

\* add_to_batch_buffer(log_line, process_name)
AddToBatchBuffer(item, key) ==
    LET line == [line |-> item.line, fault |-> item.fault, key |-> key,
                 id |-> Len(added) + 1]
        buffer == Append(batch_buffer, line)
    IN  /\ Len(added) < MaxAdds
        /\ BufferFull(buffer) => Len(flushes) < MaxFlushes
        /\ batch_buffer' = buffer
        /\ batch_process_name' = key
        /\ added' = Append(added, line)
        /\ flushes' = IF BufferFull(buffer)
                      THEN Append(flushes, FlushTask("pending", <<>>, "", FALSE))
                      ELSE flushes
        /\ last' = Op("add_to_batch_buffer", 0, "none")
        /\ UNCHANGED <<regVars, storeVars, pipeVars, taskVars>>

\* The history of a chunk of buffered lines whose tasks ran: each line, told
\* by the number it was added under, started and ended.
RECURSIVE Ran(_)
Ran(chunk) ==
    IF chunk = <<>> THEN <<>>
    ELSE <<[what |-> "start", pos |-> Head(chunk).id],
           [what |-> "end", pos |-> Head(chunk).id]>> \o Ran(Tail(chunk))

\* A triggered _process_batch_buffer runs for the first time: lines 362-369
\* up to the first gather.
FlushBegin(t) ==
    /\ flushes[t].pc = "pending"
    /\ IF batch_buffer = <<>>
       THEN /\ flushes' = [flushes EXCEPT ![t].pc = "done"]
            /\ last' = Op("process_batch_buffer", t, "none")
       ELSE /\ flushes' = [flushes EXCEPT
                             ![t] = FlushTask("running", batch_buffer,
                                              batch_process_name, FALSE)]
            /\ last' = Op("process_batch_buffer", t, "suspended")
    /\ UNCHANGED <<regVars, storeVars, pipeVars, taskVars, batch_buffer,
                   batch_process_name, added>>

\* await flush_batch_buffer(): the flush runs inside the caller, up to the
\* first gather.
FlushBatchBuffer ==
    /\ IF batch_buffer = <<>>
       THEN /\ last' = Op("flush_batch_buffer", 0, "none")
            /\ UNCHANGED flushes
       ELSE /\ Len(flushes) < MaxFlushes
            /\ flushes' = Append(flushes, FlushTask("running", batch_buffer,
                                                    batch_process_name, TRUE))
            /\ last' = Op("flush_batch_buffer", Len(flushes) + 1, "suspended")
    /\ UNCHANGED <<regVars, storeVars, pipeVars, taskVars, batch_buffer,
                   batch_process_name, added>>

\* The tasks of the chunk a flush waits for run and the flush resumes: it
\* gathers the next chunk, or it returns from parse_log_batch_optimized,
\* clears the buffer (line 372) and ends.
FlushStep(t) ==
    LET f == flushes[t]
        chunk == Chunk(f.lines, f.pos, f.chunk_size)
        g == gather(Pipe, callbacks, chunk, f.key)
        pos == f.pos + f.chunk_size
    IN  /\ f.pc = "running"
        /\ SetPipe(g.P)
        /\ progress' = progress \o Ran(chunk)
        /\ IF pos <= Len(f.lines)
           THEN /\ flushes' = [flushes EXCEPT ![t].pos = pos]
                /\ last' = Op("gather", t, "suspended")
                /\ UNCHANGED batch_buffer
           ELSE /\ flushes' = [flushes EXCEPT ![t].pos = pos, ![t].pc = "done"]
                /\ last' = Op(IF f.manual THEN "flush_batch_buffer"
                                          ELSE "process_batch_buffer", t, "none")
                /\ batch_buffer' = <<>>
        /\ UNCHANGED <<regVars, callbacks, processing_queue, processing_task,
                       workers, caller, stopper, stop_returned, stale, steady,
                       batch, batch_process_name, added, tasks>>

NextBuffer ==
    \/ \E item \in BufferItems, k \in BufferKeys : AddToBatchBuffer(item, k)
    \/ \E t \in 1..Len(flushes) : FlushBegin(t)
    \/ FlushBatchBuffer
    \/ \E t \in 1..Len(flushes) : FlushStep(t)

SpecBuffer == InitBuffer /\ [][NextBuffer]_vars

(***************************************************************************)
(* parse_log_batch_optimized step by step (SpecChunks): the tasks of a     *)
(* chunk start in the order of the list, each runs parse_log_line up to    *)
(* an awaited observer and resumes in any order, and the batch resumes     *)
(* from its gather when the tasks of the chunk are done.                   *)
(***************************************************************************)
ChunkCallbacks == { <<"cb_sync">>, <<"cb_async">> }

\* A task of parse_log_line: pc is "ready" (created, not yet run), "notify"
\* (suspended in an awaited observer) or "done".
ReadyTask == [pc |-> "ready", idx |-> 0, entry |-> NoEntry, ret |-> "none"]

\* LogParser._notify_callbacks from the idx-th observer on, up to the next
\* awaited one.
RECURSIVE parser_notify_from(_, _, _, _)
parser_notify_from(P, cbs, idx, entry) ==
    IF idx > Len(cbs)
    THEN [P |-> P, pc |-> "done", idx |-> idx, entry |-> entry, ret |-> "entry"]
    ELSE LET P1 == Invoke(P, cbs[idx], entry)
         IN  IF IsAsync(cbs[idx])
             THEN [P |-> P1, pc |-> "notify", idx |-> idx + 1, entry |-> entry,
                   ret |-> "entry"]
             ELSE parser_notify_from(P1, cbs, idx + 1, entry)

\* parse_log_line up to its first suspension.
line_start(P, cbs, item, key) ==
    LET r == parse_log_line(P, <<>>, item.line, key, item.fault)
    IN  IF r.ret = "entry"
        THEN parser_notify_from(r.P, cbs, 1, r.entry)
        ELSE [P |-> r.P, pc |-> "done", idx |-> 0, entry |-> r.entry, ret |-> r.ret]

\* A gather that resumes as soon as one of its tasks is done.
JoinedOnFirst(ts) == \E i \in 1..Len(ts) : ts[i].pc = "done"

\* await asyncio.gather(*tasks), line 329: every task is done.
Joined(ts) == \A i \in 1..Len(ts) : ts[i].pc = "done"

ChunkSize(items) == Min({BatchSize, Len(items)})

InitChunks ==
    /\ patterns = DefaultPatterns
    /\ custom_patterns = EmptyDict
    /\ loaded = Registry(DefaultPatterns, EmptyDict)
    /\ EmptyStore
    /\ IdleService
    /\ callbacks \in ChunkCallbacks
    /\ last = Op("init", 0, "none")

\* await parse_log_batch_optimized(log_lines, process_name) up to the
\* first gather.
ChunksBegin(items, key) ==
    /\ batch.pc = "idle"
    /\ IF items = <<>>
       THEN /\ batch' = [batch EXCEPT !.pc = "done"]
            /\ tasks' = <<>>
            /\ last' = Op("parse_log_batch_optimized", 0, "none")
       ELSE /\ batch' = [batch EXCEPT !.pc = "gather", !.items = items,
                                      !.key = key, !.pos = 1]
            /\ tasks' = [i \in 1..Len(Chunk(items, 1, ChunkSize(items))) |-> ReadyTask]
            /\ last' = Op("parse_log_batch_optimized", 0, "suspended")
    /\ UNCHANGED <<regVars, storeVars, bufVars, callbacks, processing_stats,
                   processing_queue, processing_task, workers, caller, stopper,
                   events, stop_returned, stale, steady, progress>>

\* The record of the task of the line at position pos.
Progress(what, pos) == [what |-> what, pos |-> pos]

\* The i-th task of the chunk runs for the first time.
LineStart(i) ==
    LET pos == batch.pos + i - 1
        r == line_start(Pipe, callbacks, batch.items[pos], batch.key)
    IN  /\ batch.pc = "gather"
        /\ i \in 1..Len(tasks)
        /\ tasks[i].pc = "ready"
        /\ \A j \in 1..(i - 1) : tasks[j].pc # "ready"
        /\ SetPipe(r.P)
        /\ tasks' = [tasks EXCEPT ![i] = [pc |-> r.pc, idx |-> r.idx,
                                          entry |-> r.entry, ret |-> r.ret]]
        /\ progress' = progress \o <<Progress("start", pos)>>
                          \o (IF r.pc = "done" THEN <<Progress("end", pos)>> ELSE <<>>)
        /\ last' = Op("parse_log_line", pos, r.ret)
        /\ UNCHANGED <<regVars, bufVars, callbacks, processing_queue, processing_task,
                       workers, caller, stopper, stop_returned, stale, steady, batch>>

\* The i-th task of the chunk resumes after an awaited observer.
LineResume(i) ==
    LET pos == batch.pos + i - 1
        r == parser_notify_from(Pipe, callbacks, tasks[i].idx, tasks[i].entry)
    IN  /\ i \in 1..Len(tasks)
        /\ tasks[i].pc = "notify"
        /\ SetPipe(r.P)
        /\ tasks' = [tasks EXCEPT ![i] = [pc |-> r.pc, idx |-> r.idx,
                                          entry |-> r.entry, ret |-> r.ret]]
        /\ progress' = IF r.pc = "done"
                       THEN Append(progress, Progress("end", pos)) ELSE progress
        /\ last' = Op("parse_log_line_resumed", pos, r.ret)
        /\ UNCHANGED <<regVars, bufVars, callbacks, processing_queue, processing_task,
                       workers, caller, stopper, stop_returned, stale, steady, batch>>

\* The batch resumes from the gather, keeps the results that are entries
\* and gathers the next chunk or returns.
ChunkJoin ==
    LET pos == batch.pos + ChunkSize(batch.items)
        out == batch.out \o Kept(tasks)
    IN  /\ batch.pc = "gather"
        /\ Joined(tasks)
        /\ IF pos <= Len(batch.items)
           THEN /\ batch' = [batch EXCEPT !.pos = pos, !.out = out]
                /\ tasks' = [i \in 1..Len(Chunk(batch.items, pos,
                                                ChunkSize(batch.items))) |-> ReadyTask]
                /\ last' = Op("gather", pos, "suspended")
           ELSE /\ batch' = [batch EXCEPT !.pc = "done", !.pos = pos, !.out = out]
                /\ tasks' = <<>>
                /\ last' = Op("parse_log_batch_optimized", pos, "none")
        /\ UNCHANGED <<regVars, storeVars, bufVars, callbacks, processing_stats,
                       processing_queue, processing_task, workers, caller, stopper,
                       events, stop_returned, stale, steady, progress>>

NextChunks ==
    \/ \E items \in Batches, k \in PipeKeys : ChunksBegin(items, k)
    \/ \E i \in 1..BatchSize : LineStart(i)
    \/ \E i \in 1..BatchSize : LineResume(i)
    \/ ChunkJoin

SpecChunks == InitChunks /\ [][NextChunks]_vars

\* The statistics of either class under ingestion and reset_stats
\* (SpecStats): a LogService or a LogParser, as the stats of the initial
\* state tell, takes lines, some of which fail, queues lines and resets its
\* statistics.
StatsLines == { <<"x", " ">>, <<" ", "ERROR", " ">> }

InitStats ==
    /\ patterns = DefaultPatterns
    /\ custom_patterns = EmptyDict
    /\ loaded = Registry(DefaultPatterns, EmptyDict)
    /\ EmptyStore
    /\ processing_stats \in {ZeroStats, ParserStats}
    /\ processing_queue = <<>>
    /\ processing_task = 0
    /\ workers = [w \in Workers |-> NoWorker]
    /\ caller = IdleCaller
    /\ stopper = IdleStopper
    /\ events = <<>>
    /\ stop_returned = FALSE
    /\ stale = 0
    /\ steady = {}
    /\ batch = IdleBatch
    /\ EmptyBuffer
    /\ callbacks \in InitCallbacks
    /\ last = NoOp

\* await parse_log_line(line, key) on a LogParser, whose callbacks are taken
\* not to suspend.
ParseLine(line, key) ==
    /\ IsParser(processing_stats)
    /\ strip(line) = <<>> \/ processing_stats.total_processed < MaxIngest
    /\ LET r == parse_log_line([Pipe EXCEPT !.events = <<>>], callbacks, line, key, "none")
       IN  /\ SetPipe(r.P)
           /\ last' = Op("parse_log_line", <<line, key>>, r.ret)
    /\ UNCHANGED <<regVars, bufVars, taskVars, callbacks, processing_queue, processing_task, workers,
                   caller, stopper, stop_returned, stale, steady, batch>>

\* reset_stats(); arg tells whether the call before it was a reset too.
ResetStats ==
    /\ processing_stats' = reset_stats(processing_stats)
    /\ last' = Op("reset_stats", <<IF last.op = "reset_stats" THEN 2 ELSE 1>>, "none")
    /\ UNCHANGED <<regVars, bufVars, taskVars, storeVars, callbacks, processing_queue, processing_task,
                   workers, caller, stopper, events, stop_returned, stale, steady, batch>>

NextStats ==
    \/ \E l \in StatsLines, k \in PipeKeys, f \in {"none", "classify"} :
           ~IsParser(processing_stats) /\ IngestLine(l, k, f)
    \/ IngestResume
    \/ \E l \in StatsLines, k \in PipeKeys : ParseLine(l, k)
    \/ \E l \in StatsLines, k \in PipeKeys : Enqueue(l, k)
    \/ ResetStats

SpecStats == InitStats /\ [][NextStats]_vars

\* Lines that fail, in calls of process_log_batch and in the background
\* worker (SpecErrors).
InitErrors == InitBackground

NextErrors ==
    \/ \E items \in Batches, k \in PipeKeys : BatchStart(items, k)
    \/ BatchResume
    \/ \E k \in PipeKeys : Enqueue(<<"x", " ">>, k)
    \/ StartBackground
    \/ \E w \in Workers, f \in {"none", "classify"} : WorkerGet(w, f)
    \/ \E w \in Workers : WorkerResume(w)

SpecErrors == InitErrors /\ [][NextErrors]_vars

(***************************************************************************)
(* Claims about the background queue and the workers (Spec)                *)
(***************************************************************************)
\* C5: queue_log_for_processing never waits.  On a queue that holds
\* QueueMaxSize items it returns false and leaves the queue, the store and
\* the statistics as they were; otherwise it returns true and the queue is
\* the old queue with the new item at its tail.  The queue never holds more
\* than QueueMaxSize items.
C5_EnqueueNeverBlocks ==
    /\ [](Len(processing_queue) <= QueueMaxSize)
    /\ [][\A l \in QueueLines, k \in PipeKeys :
            Enqueue(l, k) =>
                IF Len(processing_queue) >= QueueMaxSize
                THEN /\ last'.ret = "false"
                     /\ processing_queue' = processing_queue
                     /\ processing_stats' = processing_stats
                     /\ UNCHANGED storeVars
                ELSE /\ last'.ret = "true"
                     /\ processing_queue' =
                            Append(processing_queue, [line |-> l, key |-> k])]_vars

\* C5 witness: a line was refused by a full queue.
C5_Witness ==
    /\ last.op = "queue_log_for_processing"
    /\ last.ret = "false"
    /\ Len(processing_queue) = QueueMaxSize

\* C6: the items that are in the queue when stop_background_processing
\* cancels the worker are discarded: once that stop has returned, the
\* current worker of a later start stores and counts none of them.
C6_StopDiscardsQueue ==
    [][\A w \in Workers, f \in Faults :
          (WorkerGet(w, f) /\ stale > 0 /\ stopper.pc = "idle" /\ processing_task = w)
              => UNCHANGED <<storeVars, processing_stats>>]_vars

\* C7: once stop_background_processing has returned and
\* start_background_processing has not been called since, no worker stores
\* an entry or updates the statistics.
C7_NoIngestionAfterStop ==
    [][\A w \in Workers, f \in Faults :
          (stop_returned /\ (WorkerGet(w, f) \/ WorkerResume(w)))
              => UNCHANGED <<storeVars, processing_stats>>]_vars

\* C8: start_background_processing while a worker is alive changes neither
\* the workers nor the current task; without a live worker it leaves
\* exactly one live worker, which is the current task.
C8_StartOnlyWhenIdle ==
    [][StartBackground =>
          IF \E w \in Workers : Alive(w)
          THEN UNCHANGED <<workers, processing_task>>
          ELSE /\ Cardinality({w \in Workers : Alive(w)'}) = 1
               /\ processing_task' # 0
               /\ Alive(processing_task)']_vars

(***************************************************************************)
(* Claims about process_log_line (SpecIngest)                              *)
(***************************************************************************)
IsBlank(line) == \A i \in 1..Len(line) : line[i] = " "

\* C9: process_log_line of an empty or whitespace-only line returns no
\* entry without suspension and changes nothing: the store, the statistics
\* and the observers are as before, no observer is notified and no alert is
\* raised.
C9_BlankLineNoEffect ==
    [][\A l \in PipeLines, k \in PipeKeys :
          (IsBlank(l) /\ IngestLine(l, k, "none")) =>
              /\ last' = Op("process_log_line", <<l, k>>, "none")
              /\ UNCHANGED <<regVars, bufVars, taskVars, storeVars, pipeVars>>]_vars

\* C9 witness: a whitespace-only line was handed to a pipeline that has an
\* observer and a stored entry.
C9_Witness ==
    /\ last = Op("process_log_line", <<(<<" ">>), "svc1">>, "none")
    /\ callbacks # <<>>
    /\ appended # <<>>
    /\ processing_stats.total_processed = Len(appended)

\* C10: every observer is invoked with an entry that is already saved in
\* the repository and counted in the statistics.
C10_StoreBeforeNotify ==
    \A i \in 1..Len(events) :
        events[i].kind = "notified" => events[i].stored /\ events[i].counted

\* C10 witness: an awaited observer is being notified, after a synchronous
\* one, of an entry that is saved and counted.
C10_Witness ==
    /\ caller.pc = "notify"
    /\ \E i, j \in 1..Len(events) :
          /\ i < j
          /\ events[i].kind = "notified" /\ events[i].observer = "cb_sync"
          /\ events[j].kind = "notified" /\ events[j].observer = "cb_async"
          /\ events[i].entry = caller.entry /\ events[j].entry = caller.entry
          /\ events[j].stored /\ events[j].counted

(***************************************************************************)
(* Claims about the notification of the observers                          *)
(***************************************************************************)
\* How often `observer` was notified of `entry`.
Notified(entry, observer) ==
    Cardinality({i \in 1..Len(events) :
                    /\ events[i].kind = "notified"
                    /\ events[i].entry = entry
                    /\ events[i].observer = observer})

NoDuplicates(s) == \A i, j \in 1..Len(s) : s[i] = s[j] => i = j

Returned == last.op = "process_log_line" /\ last.ret = "entry"

\* C11: when a call of process_log_line that stored an entry has returned,
\* every observer that was registered during the whole call (each of them
\* once) was notified of that entry exactly once.
C11_NotifiedExactlyOnce ==
    (Returned /\ NoDuplicates(callbacks)) =>
        \A i \in 1..Len(events) :
            events[i].kind = "counted" =>
                \A o \in steady : Notified(events[i].entry, o) = 1

(***************************************************************************)
(* Claims about failing observers (SpecObservers)                          *)
(***************************************************************************)
\* The observers notified of `entry`, in the order of their invocation.
RECURSIVE NotifiedSeq(_, _)
NotifiedSeq(evts, entry) ==
    IF evts = <<>> THEN <<>>
    ELSE (IF Head(evts).kind = "notified" /\ Head(evts).entry = entry
          THEN <<Head(evts).observer>> ELSE <<>>) \o NotifiedSeq(Tail(evts), entry)

\* The observers one uninterrupted run of the loop reaches from position
\* idx of the list: all of them up to the first awaited one, whether or not
\* one of them fails.
RECURSIVE Reached(_, _)
Reached(cbs, idx) ==
    IF idx > Len(cbs) THEN <<>>
    ELSE IF IsAsync(cbs[idx]) THEN <<cbs[idx]>>
    ELSE <<cbs[idx]>> \o Reached(cbs, idx + 1)

Alerted(entry) ==
    Cardinality({i \in 1..Len(events) :
                    events[i].kind = "alerted" /\ events[i].entry = entry})

C14_FailureRaisesAndCounts ==
    [][\A l \in PipeLines, k \in PipeKeys, f \in Faults \ {"none"} :
          (IngestLine(l, k, f) /\ ~IsBlank(l)) =>
              /\ last'.ret = "raise"
              /\ processing_stats' =
                     [processing_stats EXCEPT !.processing_errors = @ + 1]
              /\ UNCHANGED <<storeVars, events, callbacks>>
              /\ caller' = IdleCaller]_vars

\* C14 witness: with observers registered and an entry stored before, a
\* call failed and the error was counted.
C14_Witness ==
    /\ last.op = "process_log_line"
    /\ last.ret = "raise"
    /\ processing_stats.processing_errors = 1
    /\ processing_stats.total_processed = 1
    /\ Len(appended) = 1
    /\ callbacks # <<>>

(***************************************************************************)
(* Claims about process_log_batch (SpecBatch)                              *)
(***************************************************************************)
\* The messages process_log_batch is to return for `items`: the stripped
\* non-blank lines that do not fail, in input order.
RECURSIVE Successes(_)
Successes(items) ==
    IF items = <<>> THEN <<>>
    ELSE (IF ~IsBlank(Head(items).line) /\ Head(items).fault = "none"
          THEN <<SelectSeq(Head(items).line, LAMBDA w : w # " ")>> ELSE <<>>)
         \o Successes(Tail(items))

BatchReturned == batch.pc = "done"

\* C15: when process_log_batch has returned, every line of the input was
\* processed, and the entries returned are exactly those of the non-blank
\* lines that did not fail, in input order: they are the entries the batch
\* stored, in the order it stored them.
C15_BatchReturnsSuccesses ==
    BatchReturned =>
        /\ batch.pos = Len(batch.items) + 1
        /\ [i \in 1..Len(batch.out) |-> batch.out[i].message] = Successes(batch.items)
        /\ batch.out = LastN(appended, Len(batch.out))
        /\ \A i, j \in 1..Len(batch.out) :
              i < j => batch.out[i].timestamp < batch.out[j].timestamp

\* C15 witness: a batch whose first line failed, whose second line is
\* blank and whose third line was ingested, with an awaited observer,
\* returned the one entry.
C15_Witness ==
    /\ BatchReturned
    /\ Len(batch.items) = 3
    /\ batch.items[1].fault = "store"
    /\ IsBlank(batch.items[2].line)
    /\ batch.items[3].fault = "none" /\ ~IsBlank(batch.items[3].line)
    /\ Len(batch.out) = 1
    /\ "cb_async" \in Range(callbacks)

(***************************************************************************)
(* Claims about parse_log_batch_optimized (SpecParallel)                   *)
(***************************************************************************)
ParallelReturned == last.op = "parse_log_batch_optimized"

\* C16: parse_log_batch_optimized returns exactly the entries of the
\* non-blank lines that did not fail, in input order, whatever the number
\* of lines is against the chunk size: fewer, as many, a multiple or not;
\* each of them was counted once and each failed line once.
C16_ParallelReturnsSuccesses ==
    ParallelReturned =>
        /\ [i \in 1..Len(batch.out) |-> batch.out[i].message] = Successes(batch.items)
        /\ \A i, j \in 1..Len(batch.out) :
              i < j => batch.out[i].timestamp < batch.out[j].timestamp
        /\ Len(batch.out) + (processing_stats.processing_errors - batch.errors0)
              = NonBlank(batch.items)

\* C16 witness: one line more than a chunk holds, none blank and none
\* failing, gave as many entries.
C16_Witness ==
    /\ ParallelReturned
    /\ Len(batch.items) = BatchSize + 1
    /\ \A i \in 1..Len(batch.items) :
          ~IsBlank(batch.items[i].line) /\ batch.items[i].fault = "none"
    /\ Len(batch.out) = BatchSize + 1
    /\ callbacks # <<>>

(***************************************************************************)
(* Claims about the batch buffer (SpecBuffer)                              *)
(***************************************************************************)
\* A flush has just finished: a triggered task or a flush_batch_buffer
\* returned.
FlushFinished ==
    /\ last.op \in {"process_batch_buffer", "flush_batch_buffer"}
    /\ last.ret = "none"

\* C27: an add_to_batch_buffer that leaves BatchSize lines or more in the
\* buffer creates a flush task in that very call, and at the step in
\* which a flush, triggered or asked for by flush_batch_buffer, finishes,
\* the buffer is empty, whether its lines failed or not.
C27_FlushTriggersAndClears ==
    [][/\ (last'.op = "add_to_batch_buffer" /\ Len(batch_buffer') >= BatchSize) =>
              /\ Len(flushes') = Len(flushes) + 1
              /\ flushes'[Len(flushes')].pc = "pending"
       /\ FlushFinished' => batch_buffer' = <<>>]_vars

\* C27 witness: a triggered flush whose copy held a failing line has
\* finished, after a line was added while it was suspended.
C27_Witness ==
    /\ FlushFinished
    /\ last.op = "process_batch_buffer"
    /\ \E i \in 1..Len(flushes[last.arg].lines) :
          flushes[last.arg].lines[i].fault # "none"
    /\ Len(added) > Len(flushes[last.arg].lines)
    /\ processing_stats.processing_errors >= 1
    /\ batch_buffer = <<>>

(***************************************************************************)
(* Claims about the count of failed lines (SpecErrors)                     *)
(***************************************************************************)
\* The lines of items at positions a..b that are not blank and fail.
Failed(items, a, b) ==
    Cardinality({i \in a..b : ~IsBlank(items[i].line) /\ items[i].fault # "none"})

Blanks(items) == Len(items) - NonBlank(items)

\* The returned entries, the blank lines and the growth of processing_errors
\* since the call began add up to the lines of the batch.
BatchAccounts ==
    Len(batch.out) + Blanks(batch.items)
        + (processing_stats.processing_errors - batch.errors0) = Len(batch.items)

\* A step of process_log_batch counts one error for each failing line the
\* loop went past in it.
BatchStepCounts ==
    last'.op \in {"process_log_batch", "process_log_batch_suspended"} =>
        LET p0 == IF batch.pc = "notify" THEN batch.pos + 1 ELSE 1
            p1 == IF batch'.pc = "notify" THEN batch'.pos - 1 ELSE Len(batch'.items)
        IN  processing_stats'.processing_errors =
                processing_stats.processing_errors + Failed(batch'.items, p0, p1)

\* The worker, for the line it takes from the queue, either stores an entry
\* or counts exactly one error, and neither for a blank line.
WorkerStepCounts ==
    last'.op = "worker_ingest" =>
        LET grown == processing_stats'.processing_errors
                         - processing_stats.processing_errors
            saved == Len(appended') - Len(appended)
        IN  /\ grown = (IF last'.ret = "raise" THEN 1 ELSE 0)
            /\ IF IsBlank(Head(processing_queue).line)
               THEN grown = 0 /\ saved = 0
               ELSE grown + saved = 1

\* The step in which a call of process_log_batch returns.
BatchReturns == last'.op = "process_log_batch"

AddFailed == last.op = "add_custom_pattern" /\ last.ret = "raise"

\* C18: add_custom_pattern with an expression that does not compile raises
\* the pattern error and leaves the registry as it was: both dicts keep
\* their keys and their lists, and the classifier is handed the same
\* levels and, for every level, the same sorted patterns as before, which
\* is all a classification reads.
C18_InvalidPatternRejected ==
    [][(last'.op = "add_custom_pattern" /\ ~Compiles(last'.arg[2])) =>
          /\ last'.ret = "raise"
          /\ patterns' = patterns
          /\ custom_patterns' = custom_patterns
          /\ all_levels' = all_levels
          /\ \A l \in Levels : get_patterns(l)' = get_patterns(l)]_vars

\* C18 witness: the rejected pattern was for a level that had no custom
\* pattern, in a registry holding another custom pattern, and the level
\* is still no key.
C18_Witness ==
    /\ AddFailed
    /\ ~Compiles(last.arg[2])
    /\ last.arg[1] \notin Range(custom_patterns.keys)
    /\ CustomCount >= 1

\* C19: a line that no pattern of any level matches, standard or custom,
\* is classified as info, whatever the registry holds: the default
\* patterns, no pattern at all, or no info pattern.
C19_NoMatchIsInfo ==
    (Classified /\ Matching(last.arg) = {}) => last.ret = "info"

\* C19 witness: a registry with no level and no pattern classified a line
\* with the word ERROR as info.
C19_Witness ==
    /\ Classified
    /\ all_levels = {}
    /\ AllRegistered = {}
    /\ last.arg = <<"ERROR">>
    /\ last.ret = "info"

Reloaded == last.op = "reload_patterns"

Corrupt(config) ==
    \/ config.file # "ok"
    \/ \E i \in 1..Len(config.patterns) : ~config.patterns[i].list.iterable
    \/ \E i \in 1..Len(config.custom_patterns) : ~config.custom_patterns[i].list.iterable

LoadedOrReloaded == last.op \in {"load_patterns", "reload_patterns"}

\* C21: a load, at construction or in a reload, never raises, and when the
\* file is missing or cannot be parsed the registry holds the built-in
\* patterns of error, warning, info and debug and no custom pattern:
\* nothing the parsing had filled in before it failed is left.
C21_FallbackToDefaults ==
    LoadedOrReloaded =>
        /\ last.ret # "raise"
        /\ Corrupt(last.arg) =>
              /\ patterns = DefaultPatterns
              /\ custom_patterns = EmptyDict
              /\ Range(patterns.keys) = {"error", "warning", "info", "debug"}
              /\ \A l \in Range(patterns.keys) : patterns.lists[l] # <<>>
              /\ \A l \in Levels \ Range(patterns.keys) : patterns.lists[l] = <<>>

\* C21 witness: a reload over a file whose parsing failed in the custom
\* section, after a standard level and a custom level had been parsed,
\* replaced a registry by the default patterns.
C21_Witness ==
    /\ Reloaded
    /\ last.arg.file = "ok"
    /\ Len(last.arg.patterns) = 1
    /\ Len(last.arg.custom_patterns) = 2
    /\ Corrupt(last.arg)
    /\ last.ret = "replaced"
    /\ patterns = DefaultPatterns
    /\ custom_patterns = EmptyDict

(***************************************************************************)
(* Claims about the statistics (SpecStats)                                 *)
(***************************************************************************)
WasReset == last.op = "reset_stats"

\* C22: reset_stats is idempotent: after a reset, one more reset leaves the
\* processing statistics and the statistics of the classifier as they are,
\* for a LogService and for a LogParser.
C22_ResetIdempotent ==
    WasReset => reset_stats(processing_stats) = processing_stats

\* C22 witness: a LogParser was reset twice in a row and holds zero totals
\* after the second reset.
C22_Witness ==
    /\ WasReset
    /\ last.arg = <<2>>
    /\ IsParser(processing_stats)
    /\ processing_stats.total_processed = 0
    /\ processing_stats.processing_errors = 0

\* Every part of the statistics is there and is zero or empty.
Zeroed(stats) ==
    /\ stats.total_processed = 0
    /\ stats.processing_errors = 0
    /\ "level_counts" \in DOMAIN stats
    /\ \A l \in Levels : stats.level_counts[l] = 0
    /\ "process_counts" \in DOMAIN stats
    /\ \A k \in Keys : stats.process_counts[k] = 0
    /\ IsParser(stats) =>
          /\ "pattern_matches" \in DOMAIN stats
          /\ stats.pattern_matches = <<>>
          /\ stats.classification_stats = ZeroClassification

\* C23: reset_stats zeroes every part of the processing statistics (the
\* two totals, the histograms of levels, of keys and of matched patterns)
\* and the counts of the classifier, and leaves the observers, the queue,
\* the buffers of the store and the patterns as they are.
C23_ResetZeroesAll ==
    [][last'.op = "reset_stats" =>
          /\ Zeroed(processing_stats')
          /\ UNCHANGED <<callbacks, processing_queue, logs, all_logs,
                         patterns, custom_patterns>>]_vars

(***************************************************************************)
(* Claims about the registration of observers (SpecIngest)                 *)
(***************************************************************************)
\* C24: adding an observer that is registered already changes nothing: the
\* list never holds an observer twice, and no observer is notified of a
\* stored entry more than once.
C24_DuplicateAddNoOp ==
    /\ NoDuplicates(callbacks)
    /\ Returned =>
          \A i \in 1..Len(events) :
              events[i].kind = "counted" =>
                  \A o \in Observers : Notified(events[i].entry, o) <= 1

(***************************************************************************)
(* Claims about the counters under the background processing (Spec)        *)
(***************************************************************************)
\* No counter of the statistics that both states hold is smaller in the
\* second state.
NeverDecrease ==
    /\ processing_stats'.total_processed >= processing_stats.total_processed
    /\ processing_stats'.processing_errors >= processing_stats.processing_errors
    /\ "level_counts" \in DOMAIN processing_stats \cap DOMAIN processing_stats' =>
          \A l \in Levels :
              processing_stats'.level_counts[l] >= processing_stats.level_counts[l]
    /\ "process_counts" \in DOMAIN processing_stats \cap DOMAIN processing_stats' =>
          \A k \in Keys :
              processing_stats'.process_counts[k] >= processing_stats.process_counts[k]

\* C25: in every step that is no reset_stats, whichever of the caller, the
\* worker, a start or a stop takes it, total_processed, processing_errors
\* and every count of the histograms stay or grow.
C25_CountersMonotonic == [][last'.op # "reset_stats" => NeverDecrease]_vars

\* C25 witness: the worker has just counted a line after a line had
\* failed.
C25_Witness ==
    /\ last.op = "worker_ingest"
    /\ last.ret = "entry"
    /\ processing_stats.total_processed >= 1
    /\ processing_stats.processing_errors >= 1

(***************************************************************************)
(* Claims about the background worker (Spec)                               *)
(***************************************************************************)
\* A worker is inside the ingestion of an item: suspended in an awaited
\* observer.
Ingesting(w) == workers[w].pc = "notify"

\* C28: a worker takes the oldest item of the queue and ingests that one,
\* and it takes an item only when the ingestion of every item taken
\* before has finished.
C28_WorkerFifoOneAtATime ==
    [][last'.op = "worker_ingest" =>
          /\ processing_queue' = Tail(processing_queue)
          /\ Len(appended') > Len(appended) =>
                appended'[Len(appended')].message = strip(Head(processing_queue).line)
          /\ \A w \in Workers : ~Ingesting(w)]_vars

\* The step is a failed ingestion of a queued item or a poll of the empty
\* queue that timed out.
FailedOrTimedOut ==
    \/ last'.op = "worker_ingest" /\ last'.ret = "raise"
    \/ last'.op = "worker_timeout"

\* C29: a queued item that fails and a poll that times out leave every
\* worker and the current worker of the pipeline as they were, back at
\* the queue, and a worker ends by cancellation only.
C29_WorkerSurvivesFailures ==
    [][/\ FailedOrTimedOut =>
              /\ workers' = workers
              /\ processing_task' = processing_task
              /\ \E w \in Workers : workers'[w].pc = "get"
       /\ \A w \in Workers :
              (Alive(w) /\ workers'[w].pc = "done") => last'.op = "worker_cancelled"]_vars

\* C29 witness: the worker the pipeline records has polled the empty
\* queue after it had failed on one item and ingested another.
C29_Witness ==
    /\ last.op = "worker_timeout"
    /\ processing_task # 0
    /\ workers[processing_task].pc = "get"
    /\ ~workers[processing_task].cancel
    /\ processing_stats.processing_errors >= 1
    /\ Len(appended) >= 1
    /\ \A w \in Workers : w # processing_task => ~Alive(w)

(***************************************************************************)
(* Claims about the chunks of parse_log_batch_optimized (SpecChunks)       *)
(***************************************************************************)
\* The chunk of the line at position pos, chunks counted from 0.
ChunkOf(pos) == (pos - 1) \div ChunkSize(batch.items)

\* The places of the history at which the task of position pos started
\* and ended.
PlacesOf(what, pos) ==
    {n \in 1..Len(progress) : progress[n] = Progress(what, pos)}

\* The tasks in flight after the first n records of the history.
InFlight(n) ==
    Cardinality({m \in 1..n : progress[m].what = "start"})
        - Cardinality({m \in 1..n : progress[m].what = "end"})

\* C30: when a line starts, every line of the chunks before its own has
\* started and ended, so the lines are ingested chunk after chunk, and
\* never more than the chunk size of lines are in flight.
C30_ChunksOneAfterAnother ==
    /\ \A n \in 1..Len(progress) :
          progress[n].what = "start" =>
              \A q \in 1..Len(batch.items) :
                  ChunkOf(q) < ChunkOf(progress[n].pos) =>
                      /\ \E m \in PlacesOf("start", q) : m < n
                      /\ \E m \in PlacesOf("end", q) : m < n
    /\ \A n \in 1..Len(progress) : InFlight(n) <= ChunkSize(batch.items)

\* C30 witness: the batch returned after a second chunk, and in its first
\* chunk a whole chunk of lines was in flight at once.
C30_Witness ==
    /\ batch.pc = "done"
    /\ Len(batch.items) > BatchSize
    /\ \E n \in 1..Len(progress) : InFlight(n) = BatchSize
    /\ \E n \in 1..Len(progress) : ChunkOf(progress[n].pos) = 1

(***************************************************************************)
(* Claims about stopping and draining under scheduling (SpecLive)          *)
(***************************************************************************)
\* C31: a stop that suspended on its worker returns in the end; when a
\* stop returns the pipeline records no worker and the worker it awaited
\* is done, also a worker cancelled inside an ingestion; a stop called
\* with no worker recorded returns in the same step and changes nothing.
C31_StopReturnsIdle ==
    /\ (stopper.pc = "await") ~> (stopper.pc = "idle")
    /\ [][last'.op = "stop_background_processing" =>
             /\ processing_task' = 0
             /\ stopper'.pc = "idle"
             /\ stopper.pc = "await" => workers'[stopper.task].pc = "done"
             /\ (stopper.pc = "idle" /\ processing_task # 0) =>
                   workers'[processing_task].pc = "done"
             /\ (stopper.pc = "idle" /\ processing_task = 0) =>
                   UNCHANGED <<storeVars, workers, processing_queue,
                               processing_stats, callbacks>>]_vars

\* C31 witness: a stop has returned whose worker was cancelled while it
\* was suspended in an observer, with the entry of that ingestion stored.
C31_Witness ==
    /\ last.op = "stop_background_processing"
    /\ processing_task = 0
    /\ \E w \in Workers : workers[w].pc = "done"
    /\ \A w \in Workers : ~Alive(w)
    /\ Len(appended) >= 1
    /\ \E i \in 1..Len(events) :
          events[i].kind = "notified" /\ events[i].observer = "cb_async"
    /\ processing_queue # <<>>

(***************************************************************************)
(* Claims about concurrent starts and stops (Spec)                         *)
(***************************************************************************)
\* C32: at most one worker is alive, and a worker that is alive is the
\* one the pipeline records as its current worker.
C32_OneTrackedWorker ==
    /\ Cardinality({w \in Workers : Alive(w)}) <= 1
    /\ \A w \in Workers : Alive(w) => processing_task = w

(***************************************************************************)
(* Claims about ingestion after a reset (SpecStats)                        *)
(***************************************************************************)
\* C33: a non-blank line ingested right after reset_stats does not raise,
\* yields its entry (stored, where the class has a store) and leaves
\* total_processed = 1 and processing_errors = 0.
C33_IngestAfterReset ==
    [][(/\ last.op = "reset_stats"
        /\ \/ last'.op = "parse_log_line"
           \/ /\ last'.op \in {"process_log_line", "process_log_line_suspended"}
              /\ caller.pc = "idle"
              /\ last'.ret # "raise"
        /\ strip(last'.arg[1]) # <<>>) =>
          /\ last'.ret = "entry"
          /\ processing_stats'.total_processed = 1
          /\ processing_stats'.processing_errors = 0
          /\ ~IsParser(processing_stats) => Len(appended') = Len(appended) + 1]_vars

(***************************************************************************)
(* Claims about the lines of the batch buffer (SpecBuffer)                 *)
(***************************************************************************)
\* The number of times the line added as the id-th was handed to
\* parse_log_line.
Ingestions(id) ==
    Cardinality({n \in 1..Len(progress) :
                    progress[n].what = "start" /\ progress[n].pos = id})

\* C34: no line handed to add_to_batch_buffer is ingested more than once.
C34_BufferedLineOnce == \A id \in 1..Len(added) : Ingestions(id) <= 1

\* The line added as the id-th is still to be ingested: it is in the
\* buffer, or in the part of its copy a flush in progress has not reached.
Waiting(id) ==
    \/ \E i \in 1..Len(batch_buffer) : batch_buffer[i].id = id
    \/ \E t \in 1..Len(flushes) :
          /\ flushes[t].pc = "running"
          /\ \E i \in flushes[t].pos..Len(flushes[t].lines) :
                flushes[t].lines[i].id = id

\* C35: every line handed to add_to_batch_buffer has been ingested or is
\* still to be ingested; none is dropped, also one added while a flush is
\* in progress.
C35_BufferedLineNotDropped ==
    \A id \in 1..Len(added) : Ingestions(id) >= 1 \/ Waiting(id)

\* C36: a flush ingests each line of its copy under the key the line was
\* added with.
C36_FlushedUnderOwnKey ==
    \A t \in 1..Len(flushes) :
        \A i \in 1..Len(flushes[t].lines) :
            flushes[t].lines[i].key = flushes[t].key

(***************************************************************************)
(* Claims about the agreement of the counters (SpecStats)                  *)
(***************************************************************************)
RECURSIVE SumOf(_, _)
SumOf(f, S) ==
    IF S = {} THEN 0
    ELSE LET x == CHOOSE y \in S : TRUE
         IN  f[x] + SumOf(f, S \ {x})

\* The sum of the counts of a histogram; a histogram the statistics do not
\* hold counts nothing.
HistogramSum(stats, name, S) ==
    IF name \in DOMAIN stats THEN SumOf(stats[name], S) ELSE 0

\* total_processed is the sum of either histogram.
SumsAgree ==
    /\ processing_stats.total_processed
          = HistogramSum(processing_stats, "level_counts", Levels)
    /\ processing_stats.total_processed
          = HistogramSum(processing_stats, "process_counts", Keys)

\* total_processed moves with the entries appended to the store: a reset
\* sets it to 0, every other step adds to it what it appends.
CountsAppends ==
    IF last'.op = "reset_stats"
    THEN processing_stats'.total_processed = 0
    ELSE processing_stats'.total_processed - processing_stats.total_processed
            = Len(appended') - Len(appended)

\* C37: in every state total_processed is the sum of the level counts and
\* the sum of the per-key counts, and, where the class has a store, the
\* number of entries appended since the latest reset_stats.
C37_CountersAgree ==
    /\ []SumsAgree
    /\ [][~IsParser(processing_stats) => CountsAppends]_vars

\* The same for the statistics of a LogService alone.
ServiceCountersAgree ==
    /\ [](~IsParser(processing_stats) => SumsAgree)
    /\ [][~IsParser(processing_stats) => CountsAppends]_vars

\* Everything a query answers when no filter and no limit cuts it.
Answered(process_name) ==
    Range(get_logs(Store, process_name, "", 0, 0, GlobalCapacity))

\* C38: every entry retained in a per-key buffer is retained in the global
\* buffer, so the query without a key answers every entry that the query
\* with the entry's key answers.
C38_PerKeyWithinGlobal ==
    \A k \in Keys :
        /\ Range(logs[k]) \subseteq Range(all_logs)
        /\ Answered(k) \subseteq Answered("")

(***************************************************************************)
(* Claims about draining the queue under a fair worker (SpecDrain)         *)
(***************************************************************************)
\* The background processing was started and no stop has been called on
\* it, or a worker is alive that no stop has cancelled.
Running ==
    \/ processing_task # 0 /\ stopper.pc = "idle"
    \/ \E w \in Workers : Alive(w) /\ ~workers[w].cancel

\* A worker takes the oldest item of the queue and passes it to
\* process_log_line.
Dequeued ==
    /\ processing_queue # <<>>
    /\ processing_queue' = Tail(processing_queue)
    /\ last'.op = "worker_ingest"

\* C39: while the background processing runs and is not stopped, the
\* worker keeps taking items from a queue that holds any, whether or not
\* the ingestion of earlier items failed; the queue being first-in
\* first-out and bounded, every accepted item is taken in the end.
C39_AcceptedItemsIngested ==
    <>[](Running /\ processing_queue # <<>>) => []<><<Dequeued>>_vars

\* C39 witness: the worker takes an item after the ingestion of an earlier
\* item failed, and an accepted item is still waiting.
C39_Witness ==
    /\ Running
    /\ last.op = "worker_ingest"
    /\ processing_stats.processing_errors >= 1
    /\ Len(appended) >= 1
    /\ processing_queue # <<>>

====
